---- MODULE Spec2Model ----
(***************************************************************************)
(* Model of the Confluence QA-checklist extraction engine:                 *)
(*   scripts/confluence/html_table_parser.py  (EnhancedConfluenceTableParser) *)
(*   scripts/confluence/unified_loader.py     (UnifiedConfluenceLoader)    *)
(*   app/ai/qa_analyzer.py                    (QAContentAnalyzer)          *)
(*                                                                         *)
(* Texts are TLA+ strings; the Python string operations the code uses      *)
(* (lower, upper, strip, substring test, regular-expression clean-ups)     *)
(* are computed character by character.  The texts of the model are ASCII; *)
(* keywords of the source that contain Cyrillic letters can match no ASCII *)
(* text and are left out of the keyword lists, and the Cyrillic labels the *)
(* code returns are written transliterated.                                *)
(***************************************************************************)
EXTENDS Integers, Sequences, FiniteSets, TLC

VARIABLES
    pc,                     \* position in _process_page_mysql
    schema,                 \* _parse_table: schema of the table being parsed
    rows,                   \* _parse_table: data rows of the table read so far
    rows_read,              \* data rows of the page read so far
    current_section,        \* _parse_table: local current_section
    current_functionality,  \* _parse_table: local current_functionality
    table_testcases,        \* _parse_table: local testcases
    testcases,              \* parse_testcases_from_html: local testcases
    tables_done,            \* parse_testcases_from_html: tables parsed so far
    parse_error,            \* parse_testcases_from_html: the except branch was taken
    html_testcases,         \* _process_page_mysql: html_testcases
    ai_testcases,           \* _process_page_mysql: ai_testcases
    ai_configs,             \* _process_page_mysql: ai_configs
    analysis_bound,         \* _process_page_mysql: analysis_result is bound
    all_testcases,          \* _process_page_mysql: all_testcases
    dedup_i,                \* _remove_duplicates: testcases consumed by the loop
    unique_testcases,       \* _remove_duplicates: unique_testcases
    seen_hashes,            \* _remove_duplicates: seen_hashes
    db_testcases,           \* TestCase rows committed for the page
    result,                 \* value returned by _process_page_mysql
    an_pc,                  \* position in analyze_qa_content_enhanced
    result_text,            \* analyze_qa_content: result_text
    analysis_data,          \* analyze_qa_content: analysis_data
    analysis,               \* the QAAnalysisResult built last
    enhanced_testcases,     \* _enhance_testcase_extraction: enhanced_testcases
    blocks_left,            \* _enhance_testcase_extraction: long blocks not yet analysed
    b_pc,                   \* position in load_data
    pages,                  \* load_data: pages
    page_i,                 \* load_data: pages the loop has gone through
    limit,                  \* load_data: limit, 0 for None
    created_checklists,     \* progress.created_checklists
    created_testcases,      \* progress.created_testcases
    skipped_checklists,     \* progress.skipped_checklists
    processed_pages,        \* progress.processed_pages
    documents_processed,    \* load_data: documents_processed
    existing_checklists,    \* _existing_checklists
    batch_result,           \* value returned by load_data
    unified_result,         \* value returned by _process_page_unified for the last page
    frames,                 \* the locals of the calls in progress on one parser and one loader, by task
    d_pc,                   \* position in _detect_table_schema
    header_row,             \* _detect_table_schema: the cells of the header row
    headers,                \* _detect_table_schema: local headers
    schema_i,               \* _detect_table_schema: templates of the catalog tried so far
    best_match,             \* _detect_table_schema: local best_match
    best_score,             \* _detect_table_schema: local best_score
    detected,               \* _detect_table_schema: the schema returned
    t_pc,                   \* position in the MCP tool function called
    tool_call,              \* the MCP tool function called and its arguments
    touched,                \* the collaborators the call has reached, in order
    response                \* the dictionary the MCP tool function returned

vars == <<pc, schema, rows, rows_read, current_section, current_functionality,
          table_testcases, testcases, tables_done, parse_error, html_testcases,
          ai_testcases, ai_configs, analysis_bound, all_testcases, dedup_i,
          unique_testcases, seen_hashes, db_testcases, result,
          an_pc, result_text, analysis_data, analysis, enhanced_testcases, blocks_left,
          b_pc, pages, page_i, limit, created_checklists, created_testcases,
          skipped_checklists, processed_pages, documents_processed,
          existing_checklists, batch_result, unified_result, frames,
          d_pc, header_row, headers, schema_i, best_match, best_score, detected,
          t_pc, tool_call, touched, response>>

parse_vars == <<schema, rows, rows_read, current_section, current_functionality,
                table_testcases, testcases, tables_done, parse_error>>

merge_vars == <<all_testcases, dedup_i, unique_testcases, seen_hashes>>

page_vars == <<pc, parse_vars, html_testcases, ai_testcases, ai_configs, analysis_bound,
               merge_vars, db_testcases, result>>

analyze_vars == <<an_pc, result_text, analysis_data, analysis, enhanced_testcases, blocks_left>>

progress_vars == <<created_checklists, created_testcases, skipped_checklists,
                   processed_pages, documents_processed, existing_checklists>>

batch_vars == <<b_pc, pages, page_i, limit, progress_vars, batch_result, unified_result>>

detect_vars == <<d_pc, header_row, headers, schema_i, best_match, best_score, detected>>

tool_vars == <<t_pc, tool_call, touched, response>>

\* the variables of schema detection and of the MCP tool functions
aux_vars == <<detect_vars, tool_vars>>

\* the variables outside _process_page_mysql
ext_vars == <<analyze_vars, batch_vars, frames, aux_vars>>

(***************************************************************************)
(* Bounds                                                                  *)
(***************************************************************************)
MaxRows == 4        \* data rows of the table of the parser specification
MaxPageRows == 2    \* data rows read from the tables of one page
MaxTables == 2      \* tables of one page
MaxLlm == 2         \* testcases in one model reply
MaxBigTable == 12   \* rows of the long table of the merge specification
MaxBigLlm == 3      \* testcases in one model reply of the merge specification
MaxDedupLen == 3    \* testcases of one source in the dedup specification
MaxBlocks == 2      \* long blocks of the content handed to the enhanced analyzer
MaxPages == 2       \* pages of one batch
MaxLimit == 1       \* largest checklist limit of a batch
MaxTaskRows == 2    \* data rows of the table a task parses
MaxDividerRows == 2 \* data rows of the table of the divider specification
MaxHeaders == 3     \* cells of a header row drawn freely from the header texts

(***************************************************************************)
(* Python values                                                           *)
(***************************************************************************)
\* Python's None; no cell text and no model reply of the bounded sets equals it
None == "<None>"

\* dict key missing (order_index of a parser testcase)
Absent == 0 - 1

\* cell.get('colspan') when the cell has no colspan attribute
NoColspan == 0

\* a colspan attribute that int() rejects, such as colspan="all"
BadColspan == 0 - 2

\* the 10 of "len(html_testcases) > 10" in _process_page_mysql
PrimaryThreshold == 10

\* the 10 of "len(step.strip()) < 10" in _parse_testcase_row
MinStepLen == 10

\* the 10 of "len(step) < 10" in _remove_duplicates
DedupMinStepLen == 10

\* the 10 of "len(initial_analysis.testcases) < 10" in analyze_qa_content_enhanced
EnhanceThreshold == 10

\* truth value of an Optional[str]
Truthy(v) == v # None /\ v # ""

(***************************************************************************)
(* String operations                                                       *)
(***************************************************************************)
UpperAlpha == "ABCDEFGHIJKLMNOPQRSTUVWXYZ"
LowerAlpha == "abcdefghijklmnopqrstuvwxyz"
DigitChars == "0123456789"

Chr(s, i) == SubSeq(s, i, i)

InStr(c, alphabet) == \E i \in 1..Len(alphabet) : Chr(alphabet, i) = c

PosIn(c, alphabet) == CHOOSE i \in 1..Len(alphabet) : Chr(alphabet, i) = c

LowerChar(c) == IF InStr(c, UpperAlpha) THEN Chr(LowerAlpha, PosIn(c, UpperAlpha)) ELSE c

UpperChar(c) == IF InStr(c, LowerAlpha) THEN Chr(UpperAlpha, PosIn(c, LowerAlpha)) ELSE c

\* \s of the regular expressions and the characters str.strip() removes
IsSpace(c) == c \in {" ", "\t", "\n", "\r", "\f"}

\* \w of the regular expressions
IsWord(c) == InStr(c, UpperAlpha) \/ InStr(c, LowerAlpha) \/ InStr(c, DigitChars) \/ c = "_"

RECURSIVE lower(_)
lower(s) == IF s = "" THEN "" ELSE LowerChar(Chr(s, 1)) \o lower(SubSeq(s, 2, Len(s)))

RECURSIVE upper(_)
upper(s) == IF s = "" THEN "" ELSE UpperChar(Chr(s, 1)) \o upper(SubSeq(s, 2, Len(s)))

RECURSIVE lstrip(_)
lstrip(s) == IF s # "" /\ IsSpace(Chr(s, 1)) THEN lstrip(SubSeq(s, 2, Len(s))) ELSE s

RECURSIVE rstrip(_)
rstrip(s) == IF s # "" /\ IsSpace(Chr(s, Len(s))) THEN rstrip(SubSeq(s, 1, Len(s) - 1)) ELSE s

strip(s) == rstrip(lstrip(s))

\* keyword in text
Contains(text, keyword) ==
    \E i \in 1..(Len(text) - Len(keyword) + 1) : SubSeq(text, i, i + Len(keyword) - 1) = keyword

\* any(keyword in text for keyword in keywords), keywords a sequence
ContainsAny(text, keywords) == \E k \in 1..Len(keywords) : Contains(text, keywords[k])

\* re.sub(r'\s+', ' ', s)
RECURSIVE collapse_whitespace(_)
collapse_whitespace(s) ==
    IF s = "" THEN ""
    ELSE IF IsSpace(Chr(s, 1))
         THEN " " \o collapse_whitespace(lstrip(s))
         ELSE Chr(s, 1) \o collapse_whitespace(SubSeq(s, 2, Len(s)))

\* re.sub(r'[^\w\s]', '', s)
RECURSIVE remove_punctuation(_)
remove_punctuation(s) ==
    IF s = "" THEN ""
    ELSE (IF IsWord(Chr(s, 1)) \/ IsSpace(Chr(s, 1)) THEN Chr(s, 1) ELSE "")
         \o remove_punctuation(SubSeq(s, 2, Len(s)))

\* str.title() of a dictionary key made of letters only
title(s) == IF s = "" THEN "" ELSE UpperChar(Chr(s, 1)) \o lower(SubSeq(s, 2, Len(s)))

(***************************************************************************)
(* EnhancedConfluenceTableParser: data                                     *)
(***************************************************************************)
\* self.priority_map.keys(), in insertion order
priority_map == <<"HIGHEST", "HIGH", "MEDIUM", "LOW", "CRITICAL">>

\* self.table_schemas: column_mapping of the catalog templates (0-based columns)
standard_7_col ==
    [columns |-> 7,
     column_mapping |-> [number |-> 0, step |-> 1, expected |-> 2, screenshot |-> 3,
                         priority |-> 4, config |-> 5, qa_coverage |-> 6]]

simple_4_col ==
    [columns |-> 4,
     column_mapping |-> [number |-> 0, step |-> 1, expected |-> 2, priority |-> 3]]

simple_3_col ==
    [columns |-> 3,
     column_mapping |-> [step |-> 0, expected |-> 1, priority |-> 2]]

\* self.functionality_keywords, in insertion order (ASCII keywords)
functionality_keywords ==
    << <<"registration", <<"registration", "signup", "sign up">> >>,
       <<"validation", <<"validation", "check">> >>,
       <<"navigation", <<"navigate", "click">> >>,
       <<"form", <<"form", "field", "input">> >>,
       <<"email", <<"email", "mail">> >>,
       <<"password", <<"password", "pwd">> >>,
       <<"location", <<"location", "live in">> >>,
       <<"logo", <<"logo", "favicon">> >>,
       <<"search", <<"search", "find">> >>,
       <<"profile", <<"profile">> >>,
       <<"settings", <<"settings">> >>,
       <<"notification", <<"notification">> >>,
       <<"upload", <<"upload">> >>,
       <<"download", <<"download">> >>,
       <<"authentication", <<"authentication">> >>,
       <<"authorization", <<"authorization">> >> >>

\* self.subcategory_keywords, in insertion order (ASCII keywords)
subcategory_keywords ==
    << <<"UI Elements", <<"button", "form", "field", "element">> >>,
       <<"Validation", <<"validation", "check">> >>,
       <<"Navigation", <<"navigate", "redirect", "click">> >>,
       <<"Data Input", <<"input", "fill">> >>,
       <<"Visual Check", <<"display", "check", "visual">> >>,
       <<"API Testing", <<"api", "request", "response", "endpoint">> >>,
       <<"Performance", <<"performance", "speed">> >>,
       <<"Security", <<"security", "protection">> >> >>

\* section_names of _is_section_name (ASCII names)
section_names == <<"GENERAL", "CUSTOM", "SECTION">>

\* subsection_keywords of _is_subsection_header (ASCII keywords)
subsection_keywords == <<"pre condition", "steps", "precondition">>

\* functionality_keywords of _is_subsection_header (ASCII keywords)
divider_functionality_keywords ==
    <<"route", "addfirstfavorite", "openprofile", "addlike", "sendsecondmessage",
      "windows", "macos">>

\* functionality_mapping of _extract_functionality_from_divider_row, in insertion
\* order (keys without Cyrillic letters; Cyrillic labels transliterated)
functionality_mapping ==
    << <<"route", "Route">>,
       <<"addfirstfavorite", "AddFirstFavorite">>,
       <<"openprofile", "OpenProfile">>,
       <<"addlike", "AddLike">>,
       <<"sendsecondmessage", "SendSecondMessage">>,
       <<"windows", "Podpiska - Windows">>,
       <<"macos", "Podpiska - MacOS">> >>

\* divider_keywords of _is_likely_divider_row (ASCII keywords)
divider_keywords ==
    <<"route", "addfirstfavorite", "openprofile", "addlike", "sendsecondmessage">>

\* navigation_phrases, navigation_words and navigation_contexts of
\* _is_navigation_testcase are Cyrillic throughout
navigation_phrases == <<>>
navigation_words == <<>>
navigation_contexts == <<>>

(***************************************************************************)
(* EnhancedConfluenceTableParser: cells                                    *)
(***************************************************************************)
\* a td/th element holding one text node: its raw text and its colspan
\* attribute (NoColspan when the attribute is missing)
Cell(text, colspan) == [text |-> text, colspan |-> colspan]

\* cell.get_text(strip=True)
get_text(cell) == strip(cell.text)

\* _extract_text_from_cell
extract_text_from_cell(cell) == collapse_whitespace(strip(cell.text))

\* _extract_cell_content
extract_cell_content(cells, sch, field) ==
    IF field \notin DOMAIN sch.column_mapping THEN None
    ELSE IF sch.column_mapping[field] >= Len(cells) THEN None
    ELSE extract_text_from_cell(cells[sch.column_mapping[field] + 1])

\* first key of an ordered keyword dictionary with a keyword in text, or 0
FirstFamily(dict, text, skip) ==
    LET hits == {k \in 1..Len(dict) : dict[k][1] # skip /\ ContainsAny(text, dict[k][2])}
    IN IF hits = {} THEN 0 ELSE CHOOSE k \in hits : \A j \in hits : k <= j

(***************************************************************************)
(* EnhancedConfluenceTableParser: row classification and row parsing       *)
(***************************************************************************)
\* _is_section_name
is_section_name(text) == ContainsAny(text, section_names)

\* _is_section_header_row
is_section_header_row(cells) ==
    \E c \in 1..Len(cells) :
        /\ cells[c].colspan # NoColspan
        /\ cells[c].colspan >= 3
        /\ is_section_name(upper(get_text(cells[c])))

\* _is_section_header_row raises ValueError: int(colspan) is reached for a
\* colspan that is no number before a cell has made the method return True
section_header_row_raises(cells) ==
    \E c \in 1..Len(cells) :
        /\ cells[c].colspan = BadColspan
        /\ \A d \in 1..(c - 1) : ~is_section_header_row(<<cells[d]>>)

\* _extract_functionality_from_text
extract_functionality_from_text(text) ==
    LET k == FirstFamily(functionality_keywords, lower(text), "")
    IN IF k = 0 THEN None ELSE title(functionality_keywords[k][1])

\* _extract_section_info: the values left by the loop over the cells
RECURSIVE section_info_loop(_, _, _)
section_info_loop(cells, c, info) ==
    IF c > Len(cells) THEN info
    ELSE LET text == upper(get_text(cells[c]))
         IN section_info_loop(cells, c + 1,
                IF text \in {"GENERAL", "CUSTOM"}
                THEN [info EXCEPT !.section = text]
                ELSE IF is_section_name(text)
                     THEN [info EXCEPT !.functionality = extract_functionality_from_text(text)]
                     ELSE info)

\* _extract_section_info comparing the cell text without upper()
extract_section_info_case_sensitive(cells) ==
    LET exact == {c \in 1..Len(cells) : get_text(cells[c]) \in {"GENERAL", "CUSTOM"}}
        named == {c \in 1..Len(cells) : get_text(cells[c]) \notin {"GENERAL", "CUSTOM"}
                                         /\ is_section_name(upper(get_text(cells[c])))}
    IN [section |-> IF exact = {} THEN "GENERAL"
                    ELSE get_text(cells[CHOOSE c \in exact : \A d \in exact : d <= c]),
        functionality |-> IF named = {} THEN None
                          ELSE extract_functionality_from_text(
                                   upper(get_text(cells[CHOOSE c \in named : \A d \in named : d <= c])))]

\* _extract_section_info taking the section from any cell that names CUSTOM
extract_section_info_containing(cells) ==
    [section |-> IF \E c \in 1..Len(cells) : Contains(upper(get_text(cells[c])), "CUSTOM")
                 THEN "CUSTOM" ELSE "GENERAL",
     functionality |-> section_info_loop(cells, 1,
                           [section |-> "GENERAL", functionality |-> None]).functionality]

extract_section_info(cells) ==
    section_info_loop(cells, 1, [section |-> "GENERAL", functionality |-> None])

\* _is_subsection_header without the keyword tests of the divider rows
is_subsection_header_any_text(cells) ==
    \/ \E c \in 1..Len(cells) :
           /\ cells[c].colspan # NoColspan
           /\ cells[c].colspan >= 3
           /\ ContainsAny(lower(get_text(cells[c])), subsection_keywords)
    \/ /\ Len(cells) >= 2
       /\ \/ \E c \in 1..Len(cells) :
                 /\ cells[c].colspan # NoColspan
                 /\ get_text(cells[c]) # ""
          \/ /\ get_text(cells[1]) # ""
             /\ \A c \in 2..Len(cells) : get_text(cells[c]) = ""

\* _is_subsection_header
is_subsection_header(cells) ==
    \/ \E c \in 1..Len(cells) :
           /\ cells[c].colspan # NoColspan
           /\ cells[c].colspan >= 3
           /\ ContainsAny(lower(get_text(cells[c])), subsection_keywords)
    \/ /\ Len(cells) >= 2
       /\ \/ \E c \in 1..Len(cells) :
                 /\ cells[c].colspan # NoColspan
                 /\ get_text(cells[c]) # ""
                 /\ ContainsAny(lower(get_text(cells[c])), divider_functionality_keywords)
          \/ /\ get_text(cells[1]) # ""
             /\ \A c \in 2..Len(cells) : get_text(cells[c]) = ""
             /\ ContainsAny(lower(get_text(cells[1])), divider_functionality_keywords)

\* text chosen by the for/else of _extract_functionality_from_divider_row
divider_text(cells) ==
    LET spans == {c \in 1..Len(cells) : cells[c].colspan # NoColspan /\ get_text(cells[c]) # ""}
    IN IF spans # {}
       THEN get_text(cells[CHOOSE c \in spans : \A d \in spans : c <= d])
       ELSE get_text(cells[1])

\* _extract_functionality_from_divider_row without the mapping
extract_functionality_from_divider_row_verbatim(cells) ==
    IF Len(cells) = 0 THEN None
    ELSE IF divider_text(cells) = "" THEN None
    ELSE divider_text(cells)

\* _extract_functionality_from_divider_row
extract_functionality_from_divider_row(cells) ==
    IF Len(cells) = 0 THEN None
    ELSE LET text == divider_text(cells)
             hits == {k \in 1..Len(functionality_mapping) :
                          Contains(lower(text), functionality_mapping[k][1])}
         IN IF text = "" THEN None
            ELSE IF hits # {}
                 THEN functionality_mapping[CHOOSE k \in hits : \A j \in hits : k <= j][2]
                 ELSE text

\* _is_likely_divider_row
is_likely_divider_row(step_text) ==
    Len(strip(step_text)) < 50 /\ ContainsAny(lower(step_text), divider_keywords)

\* _is_navigation_testcase
is_navigation_testcase(step_lower) ==
    \/ ContainsAny(step_lower, navigation_phrases)
    \/ ContainsAny(step_lower, navigation_words) /\ ContainsAny(step_lower, navigation_contexts)

\* _extract_functionality without the skip of the navigation family
extract_functionality_with_navigation(step, config) ==
    LET combined_text == lower(step) \o " " \o (IF Truthy(config) THEN lower(config) ELSE "")
        k == FirstFamily(functionality_keywords, combined_text, "")
    IN IF is_navigation_testcase(lower(step)) THEN "Navigation"
       ELSE IF k = 0 THEN None ELSE title(functionality_keywords[k][1])

\* _extract_functionality
extract_functionality(step, config) ==
    LET combined_text == lower(step) \o " " \o (IF Truthy(config) THEN lower(config) ELSE "")
        k == FirstFamily(functionality_keywords, combined_text, "navigation")
    IN IF is_navigation_testcase(lower(step)) THEN "Navigation"
       ELSE IF k = 0 THEN None ELSE title(functionality_keywords[k][1])

\* _extract_subcategory
extract_subcategory(step) ==
    LET k == FirstFamily(subcategory_keywords, lower(step), "")
    IN IF k = 0 THEN None ELSE subcategory_keywords[k][1]

\* _extract_priority_from_cell
extract_priority_from_cell(cells, sch) ==
    LET priority_text == extract_cell_content(cells, sch, "priority")
        hits == {k \in 1..Len(priority_map) : Contains(upper(priority_text), priority_map[k])}
    IN IF ~Truthy(priority_text) THEN None
       ELSE IF hits = {} THEN None
       ELSE priority_map[CHOOSE k \in hits : \A j \in hits : k <= j]

\* v.strip() if v else None
strip_or_none(v) == IF Truthy(v) THEN strip(v) ELSE None

\* _parse_testcase_row: <<>> for None, else the one testcase dictionary
parse_testcase_row(cells, sch, section, functionality) ==
    LET step == extract_cell_content(cells, sch, "step")
        expected == extract_cell_content(cells, sch, "expected")
        config == extract_cell_content(cells, sch, "config")
    IN IF Len(cells) < 2 THEN <<>>
       ELSE IF ~Truthy(step) \/ Len(strip(step)) < MinStepLen THEN <<>>
       ELSE IF (~Truthy(expected) \/ strip(expected) = "") /\ is_likely_divider_row(step)
            THEN <<>>
       ELSE << [step |-> strip(step),
                expected_result |-> IF Truthy(expected) THEN strip(expected) ELSE "",
                priority |-> extract_priority_from_cell(cells, sch),
                test_group |-> IF section = "CUSTOM" THEN "CUSTOM" ELSE "GENERAL",
                functionality |-> IF Truthy(functionality) THEN functionality
                                  ELSE extract_functionality(step, config),
                subcategory |-> extract_subcategory(step),
                config |-> strip_or_none(config),
                qa_auto_coverage |-> strip_or_none(extract_cell_content(cells, sch, "qa_coverage")),
                screenshot |-> strip_or_none(extract_cell_content(cells, sch, "screenshot")),
                section |-> section,
                order_index |-> Absent] >>

(***************************************************************************)
(* Inputs of one page: table rows and model replies                        *)
(***************************************************************************)
Td(text) == Cell(text, NoColspan)

TcLogin == <<Td("1"), Td("Click the login button"), Td("User is redirected to dashboard"),
             Td(""), Td("HIGH"), Td(""), Td("")>>

TcEmail == <<Td("2"), Td(" Check the  email field "), Td("Field is shown"),
             Td(""), Td(""), Td("Logos"), Td("EmailTests")>>

TcShort == <<Td("3"), Td("Log in"), Td("Done"), Td(""), Td("LOW"), Td(""), Td("")>>

Tc3Col == <<Td("Open the account page"), Td("Account page is shown"), Td("low")>>

SecGeneral == <<Cell("GENERAL", 7)>>

SecCustom == <<Cell("Custom", 7)>>

SecOther == <<Cell("Section 2", 7)>>

DivLogin == <<Td("Login"), Td(""), Td(""), Td(""), Td(""), Td(""), Td("")>>

DivRoute == <<Td("Route"), Td(""), Td(""), Td(""), Td(""), Td(""), Td("")>>

DivWindows == <<Cell("Subscription - Windows", 6), Td("")>>

DivWindowsFull == <<Cell("Subscription - Windows", 7)>>

DivSteps == <<Cell("Steps to reproduce", 7)>>

BadSpan == <<Cell("Login checks", BadColspan)>>

\* a heading of a 3-column table: text in the first cell only, no keyword
DivPlain3 == <<Td("Account settings page"), Td(""), Td("")>>

\* the same heading in a cell spanning two of the three columns
DivSpan3 == <<Cell("Account settings page", 2), Td("")>>

\* a heading of a 3-column table with a divider keyword
DivRoute3 == <<Td("Route of the courier"), Td(""), Td("")>>

\* a section header whose cells would pass as step and expected result
SecPayload == <<Cell("Check the general settings", 3), Td("Settings are shown")>>

\* a section header whose text also holds a subsection keyword
SecSteps == <<Cell("General steps", 3)>>

\* a section header that names CUSTOM among other words
SecCustomChecks == <<Cell("CUSTOM CHECKS", 3)>>

\* a section header with two marker cells
SecBoth == <<Cell("Custom", 3), Td("General")>>

\* a divider whose cells would pass as step and expected result
DivPayload == <<Cell("Route of the courier", 2), Td("Courier is shown")>>

RowPool == {TcLogin, TcEmail, TcShort, Tc3Col, SecGeneral, SecCustom, SecOther,
            DivLogin, DivRoute, DivWindows, DivWindowsFull, DivSteps, BadSpan,
            DivPlain3, DivSpan3, DivRoute3, SecPayload, SecSteps, DivPayload,
            SecCustomChecks, SecBoth}

\* the rows of the tables of the divider specification
DividerRows == {Tc3Col, DivPlain3, DivSpan3, DivRoute3, DivLogin, SecCustom, BadSpan,
                SecPayload, SecSteps, DivPayload, SecCustomChecks, SecBoth}

\* the rows of the tables of a page in the page pipeline
PageRows == {TcLogin, TcEmail, TcShort, Tc3Col, SecCustom, DivRoute, BadSpan}

\* the rows of a table of the 7-column schema
WideRows == RowPool \ ({TcShort, Tc3Col} \cup (DividerRows \ {DivLogin, SecCustom, BadSpan}))

SchemaPool == {standard_7_col, simple_3_col}

\* schema and parse state outside _parse_table
NoSchema == [columns |-> 0, column_mapping |-> [f \in {} |-> 0]]

\* a testcase dictionary of a model reply; a missing key reads as None
LlmTc(step, expected, priority, group, config, order) ==
    [step |-> step, expected_result |-> expected, priority |-> priority,
     test_group |-> group, functionality |-> None, subcategory |-> None,
     config |-> config, qa_auto_coverage |-> None, screenshot |-> None,
     section |-> None, order_index |-> order]

LlmPool ==
    { LlmTc("Click the login button.", "User is redirected to dashboard", None, None, "cfg-a", 0),
      LlmTc("Check the email field", "field is shown!", "HIGH", "CUSTOM", None, 1),
      LlmTc("check the email  field", "Field is shown", None, "GENERAL", None, 1),
      LlmTc("Log in", "Done", "LOW", "GENERAL", None, 2),
      LlmTc("Open the settings page", "", "urgent", "GENERAL", None, Absent) }

RECURSIVE SeqsUpTo(_, _)
SeqsUpTo(S, n) ==
    IF n = 0 THEN {<<>>}
    ELSE LET shorter == SeqsUpTo(S, n - 1)
         IN shorter \cup {Append(q, x) : q \in shorter, x \in S}

LlmReplies == SeqsUpTo(LlmPool, MaxLlm)

ConfigReplies == {<<>>, <<"Logos">>}

\* the values of the row operators on the rows of RowPool
RowFacts ==
    [cells \in RowPool |->
        [raises |-> section_header_row_raises(cells),
         section_header |-> is_section_header_row(cells),
         subsection_header |-> is_subsection_header(cells),
         section_info |-> extract_section_info(cells),
         divider_functionality |-> extract_functionality_from_divider_row(cells)]]

\* the values current_functionality takes on tables made of the rows of RowPool
FunctionalityLabels ==
    {None} \cup {RowFacts[cells].section_info.functionality : cells \in RowPool}
           \cup {RowFacts[cells].divider_functionality : cells \in RowPool}

\* the values of _parse_testcase_row on the rows of RowPool
ParsedRow ==
    [a \in RowPool \X SchemaPool \X {"GENERAL", "CUSTOM"} \X FunctionalityLabels |->
        parse_testcase_row(a[1], a[2], a[3], a[4])]

(***************************************************************************)
(* A long table, for the merge of more than PrimaryThreshold testcases     *)
(***************************************************************************)
\* the locals of _parse_table after the row loop has run over table
RECURSIVE parse_table_loop(_, _, _, _)
parse_table_loop(table, i, sch, st) ==
    IF i > Len(table) THEN st
    ELSE LET cells == table[i] IN
         parse_table_loop(table, i + 1, sch,
            IF is_section_header_row(cells)
            THEN [st EXCEPT !.current_section = extract_section_info(cells).section,
                            !.current_functionality = extract_section_info(cells).functionality]
            ELSE IF is_subsection_header(cells)
            THEN [st EXCEPT !.current_functionality =
                     IF Truthy(extract_functionality_from_divider_row(cells))
                     THEN extract_functionality_from_divider_row(cells)
                     ELSE @]
            ELSE [st EXCEPT !.testcases = @ \o
                     parse_testcase_row(cells, sch, st.current_section, st.current_functionality)])

\* _parse_table on the data rows of a table
parse_table(table, sch) ==
    parse_table_loop(table, 1, sch,
        [current_section |-> "GENERAL", current_functionality |-> None,
         testcases |-> <<>>]).testcases

BigRow(i) ==
    <<Td(Chr(LowerAlpha, i)),
      Td("Verify the screen element " \o Chr(LowerAlpha, i)),
      Td("Element " \o Chr(LowerAlpha, i) \o " is displayed"),
      Td(""), Td("MEDIUM"), Td(""), Td("")>>

BigTable(n) == [i \in 1..n |-> BigRow(i)]

BigLlmPool ==
    { LlmTc("Open the billing history", "History is listed", "LOW", "GENERAL", None, 0),
      LlmTc("Download the last invoice", "Invoice is saved", None, "CUSTOM", None, 1),
      LlmTc("Close the billing history", "History is closed", "HIGH", None, None, 2),
      LlmTc("verify the screen element a", "Element a is displayed.", None, "GENERAL", "cfg-a", 3),
      LlmTc("Log out", "Done", "LOW", "GENERAL", None, 4) }

\* the testcases of the longest table
BigParsed == parse_table(BigTable(MaxBigTable), standard_7_col)

(***************************************************************************)
(* UnifiedConfluenceLoader: duplicate removal                              *)
(***************************************************************************)
\* (v or '').strip()
or_empty_strip(v) == IF Truthy(v) THEN strip(v) ELSE ""

\* normalize_step_for_comparison without the lower-casing
normalize_step_for_comparison_keeps_case(step) ==
    remove_punctuation(collapse_whitespace(strip(step)))

\* _normalize_step_for_comparison
normalize_step_for_comparison(step) ==
    remove_punctuation(collapse_whitespace(strip(lower(step))))

\* two testcases that differ in case, in a punctuation mark standing between
\* two blanks and in a final full stop
PunctTc == LlmTc("Open the menu - settings", "Menu is shown", None, "GENERAL", None, 5)

PlainTc == LlmTc("open the menu settings", "Menu is shown.", "LOW", "GENERAL", None, 6)

\* the testcases of the lists handed to _remove_duplicates in the dedup
\* specification: model replies and parsed rows
DedupPool ==
    LlmPool \cup {PunctTc, PlainTc}
        \cup {ParsedRow[<<TcLogin, standard_7_col, "GENERAL", None>>][1],
              ParsedRow[<<TcEmail, standard_7_col, "CUSTOM", None>>][1]}

\* the testcase dictionaries of the model: parsed rows and model replies
Testcases ==
    UNION {{ParsedRow[a][i] : i \in 1..Len(ParsedRow[a])} : a \in DOMAIN ParsedRow}
        \cup LlmPool \cup BigLlmPool \cup DedupPool
        \cup {BigParsed[i] : i \in 1..Len(BigParsed)}

\* _create_testcase_hash: the digest is modelled by the text it is taken of
\* (no two texts of the model share an md5 digest)
create_testcase_hash(step, expected) ==
    normalize_step_for_comparison(step) \o "|" \o normalize_step_for_comparison(expected)

\* the values of _create_testcase_hash on the testcases of the model, on the
\* arguments _remove_duplicates and _find_existing_testcase_index pass
HashOf ==
    [t \in Testcases |->
        create_testcase_hash(or_empty_strip(t.step), or_empty_strip(t.expected_result))]

\* hash of a testcase dictionary as _remove_duplicates and
\* _find_existing_testcase_index compute it
testcase_hash(testcase) == HashOf[testcase]

\* _find_existing_testcase_index: 0 for None, else the 1-based position
find_existing_testcase_index(tcs, h) ==
    LET hits == {i \in 1..Len(tcs) : testcase_hash(tcs[i]) = h}
    IN IF hits = {} THEN 0 ELSE CHOOSE i \in hits : \A j \in hits : i <= j

\* the better-candidate rule with its three replace cases only
is_better_testcase_replace_cases(new_testcase, existing_testcase) ==
    IF Truthy(new_testcase.priority) /\ ~Truthy(existing_testcase.priority) THEN TRUE
    ELSE IF Truthy(new_testcase.config) /\ ~Truthy(existing_testcase.config) THEN TRUE
    ELSE Len(new_testcase.step) > Len(existing_testcase.step)

\* the better-candidate rule without the keep case of the priority test
is_better_testcase_no_priority_keep(new_testcase, existing_testcase) ==
    IF Truthy(new_testcase.priority) /\ ~Truthy(existing_testcase.priority) THEN TRUE
    ELSE IF Truthy(new_testcase.config) /\ ~Truthy(existing_testcase.config) THEN TRUE
    ELSE IF ~Truthy(new_testcase.config) /\ Truthy(existing_testcase.config) THEN FALSE
    ELSE Len(new_testcase.step) > Len(existing_testcase.step)

\* _is_better_testcase
is_better_testcase(new_testcase, existing_testcase) ==
    IF Truthy(new_testcase.priority) /\ ~Truthy(existing_testcase.priority) THEN TRUE
    ELSE IF ~Truthy(new_testcase.priority) /\ Truthy(existing_testcase.priority) THEN FALSE
    ELSE IF Truthy(new_testcase.config) /\ ~Truthy(existing_testcase.config) THEN TRUE
    ELSE IF ~Truthy(new_testcase.config) /\ Truthy(existing_testcase.config) THEN FALSE
    ELSE Len(new_testcase.step) > Len(existing_testcase.step)

\* too_short without the length test
too_short_only_empty(testcase) == or_empty_strip(testcase.step) = ""

\* the step-length test of _remove_duplicates
too_short(testcase) ==
    or_empty_strip(testcase.step) = "" \/ Len(or_empty_strip(testcase.step)) < DedupMinStepLen

\* replace_if_better that keeps a duplicate which is not better as one more entry
replace_if_better_or_append(tcs, testcase) ==
    LET existing_index == find_existing_testcase_index(tcs, testcase_hash(testcase))
    IN IF existing_index = 0 THEN tcs
       ELSE IF is_better_testcase(testcase, tcs[existing_index])
       THEN [tcs EXCEPT ![existing_index] = testcase]
       ELSE Append(tcs, testcase)

\* replace_if_better that moves the better duplicate to the end of the list
replace_if_better_at_end(tcs, testcase) ==
    LET existing_index == find_existing_testcase_index(tcs, testcase_hash(testcase))
    IN IF existing_index = 0 THEN tcs
       ELSE IF is_better_testcase(testcase, tcs[existing_index])
       THEN SubSeq(tcs, 1, existing_index - 1) \o SubSeq(tcs, existing_index + 1, Len(tcs))
                \o <<testcase>>
       ELSE tcs

\* _remove_duplicates, lines 608-613: the list after a testcase whose hash was seen
replace_if_better(tcs, testcase) ==
    LET existing_index == find_existing_testcase_index(tcs, testcase_hash(testcase))
    IN IF existing_index = 0 THEN tcs
       ELSE IF is_better_testcase(testcase, tcs[existing_index])
       THEN [tcs EXCEPT ![existing_index] = testcase]
       ELSE tcs

(***************************************************************************)
(* JSON values and json.loads, for texts without escape sequences          *)
(***************************************************************************)
\* a decoded JSON value; type is "null", "bool", "number", "string", "list"
\* or "dict"; a dict holds its keys and, at the same positions, its values
JVal(type, text, keys, items) == [type |-> type, text |-> text, keys |-> keys, items |-> items]

JNull == JVal("null", "", <<>>, <<>>)

JBool(text) == JVal("bool", text, <<>>, <<>>)

JNum(text) == JVal("number", text, <<>>, <<>>)

JStr(text) == JVal("string", text, <<>>, <<>>)

JList(items) == JVal("list", "", <<>>, items)

JDict(keys, items) == JVal("dict", "", keys, items)

\* dict.get(key, default); of a repeated key json.loads keeps the last value
JGet(d, key, default) ==
    LET hits == {k \in 1..Len(d.keys) : d.keys[k] = key}
    IN IF hits = {} THEN default
       ELSE d.items[CHOOSE k \in hits : \A h \in hits : h <= k]

\* result of a decoding step: the value and the position after it
NoParse == [ok |-> FALSE, val |-> JNull, next |-> 0]

Parsed(val, next) == [ok |-> TRUE, val |-> val, next |-> next]

\* the value of body for the value of x
Bind(x, body(_)) == CHOOSE r \in {body(y) : y \in {x}} : TRUE

\* the first position from i on whose character satisfies P, else Len(s) + 1
FirstAt(s, i, P(_)) ==
    LET hits == {j \in i..Len(s) : P(Chr(s, j))}
    IN IF hits = {} THEN Len(s) + 1 ELSE CHOOSE j \in hits : \A k \in hits : j <= k

IsJsonSpace(c) == c \in {" ", "\t", "\n", "\r"}

skip_ws(s, i) == FirstAt(s, i, LAMBDA c : ~IsJsonSpace(c))

IsNumberChar(c) == InStr(c, DigitChars) \/ c \in {"-", "+", ".", "e", "E"}

\* s has word at position i
StartsAt(s, i, word) == i + Len(word) - 1 <= Len(s) /\ SubSeq(s, i, i + Len(word) - 1) = word

RECURSIVE scan_value(_, _), scan_items(_, _, _), scan_members(_, _, _, _)
\* json.JSONDecoder: the value that starts at or after position i0
scan_value(s, i0) ==
    Bind(skip_ws(s, i0), LAMBDA i :
        IF i > Len(s) THEN NoParse
        ELSE IF Chr(s, i) = "{" THEN scan_members(s, i + 1, <<>>, <<>>)
        ELSE IF Chr(s, i) = "[" THEN scan_items(s, i + 1, <<>>)
        ELSE IF Chr(s, i) = "\""
             THEN Bind(FirstAt(s, i + 1, LAMBDA c : c = "\""), LAMBDA e :
                      IF e > Len(s) THEN NoParse
                      ELSE Parsed(JStr(SubSeq(s, i + 1, e - 1)), e + 1))
        ELSE IF InStr(Chr(s, i), DigitChars) \/ Chr(s, i) = "-"
             THEN Bind(FirstAt(s, i + 1, LAMBDA c : ~IsNumberChar(c)), LAMBDA e :
                      Parsed(JNum(SubSeq(s, i, e - 1)), e))
        ELSE IF StartsAt(s, i, "null") THEN Parsed(JNull, i + 4)
        ELSE IF StartsAt(s, i, "true") THEN Parsed(JBool("true"), i + 4)
        ELSE IF StartsAt(s, i, "false") THEN Parsed(JBool("false"), i + 5)
        ELSE NoParse)

\* the elements of a list after "[" or after a comma
scan_items(s, i0, items) ==
    Bind(skip_ws(s, i0), LAMBDA i :
        IF i > Len(s) THEN NoParse
        ELSE IF Chr(s, i) = "]" /\ items = <<>> THEN Parsed(JList(items), i + 1)
        ELSE Bind(scan_value(s, i), LAMBDA r :
                 IF ~r.ok THEN NoParse
                 ELSE Bind(skip_ws(s, r.next), LAMBDA j :
                          IF j > Len(s) THEN NoParse
                          ELSE IF Chr(s, j) = "," THEN scan_items(s, j + 1, Append(items, r.val))
                          ELSE IF Chr(s, j) = "]" THEN Parsed(JList(Append(items, r.val)), j + 1)
                          ELSE NoParse)))

\* the members of an object after "{" or after a comma
scan_members(s, i0, keys, items) ==
    Bind(skip_ws(s, i0), LAMBDA i :
        IF i > Len(s) THEN NoParse
        ELSE IF Chr(s, i) = "}" /\ keys = <<>> THEN Parsed(JDict(keys, items), i + 1)
        ELSE IF Chr(s, i) # "\"" THEN NoParse
        ELSE Bind(FirstAt(s, i + 1, LAMBDA c : c = "\""), LAMBDA e :
                 IF e > Len(s) THEN NoParse
                 ELSE Bind(skip_ws(s, e + 1), LAMBDA c :
                          IF c > Len(s) \/ Chr(s, c) # ":" THEN NoParse
                          ELSE Bind(scan_value(s, c + 1), LAMBDA r :
                                   IF ~r.ok THEN NoParse
                                   ELSE Bind(skip_ws(s, r.next), LAMBDA j :
                                            IF j > Len(s) THEN NoParse
                                            ELSE IF Chr(s, j) = ","
                                                 THEN scan_members(s, j + 1,
                                                          Append(keys, SubSeq(s, i + 1, e - 1)),
                                                          Append(items, r.val))
                                            ELSE IF Chr(s, j) = "}"
                                                 THEN Parsed(JDict(Append(keys, SubSeq(s, i + 1, e - 1)),
                                                                   Append(items, r.val)), j + 1)
                                            ELSE NoParse)))))

\* json.loads: ok is FALSE where it raises JSONDecodeError
json_loads(text) ==
    Bind(scan_value(text, 1), LAMBDA r :
        IF r.ok /\ skip_ws(text, r.next) > Len(text) THEN r ELSE NoParse)

\* str.find: 0-based index of the first occurrence, -1 without one
find(text, c) ==
    LET hits == {j \in 1..Len(text) : Chr(text, j) = c}
    IN IF hits = {} THEN 0 - 1 ELSE (CHOOSE j \in hits : \A k \in hits : j <= k) - 1

\* str.rfind: 0-based index of the last occurrence, -1 without one
rfind(text, c) ==
    LET hits == {j \in 1..Len(text) : Chr(text, j) = c}
    IN IF hits = {} THEN 0 - 1 ELSE (CHOOSE j \in hits : \A k \in hits : k <= j) - 1

\* the dictionary _parse_llm_response returns from its except branch
EmptyData ==
    JDict(<<"section_title", "checklist_description", "additional_content", "feature_name",
            "feature_description", "testcases", "configs", "confidence">>,
          <<JStr(""), JStr(""), JStr(""), JStr("General"), JStr(""),
            JList(<<>>), JList(<<>>), JNum("0.0")>>)

\* parse_llm_response that ends the substring at the first "}"
parse_llm_response_first_close(response_text) ==
    IF response_text = None THEN EmptyData
    ELSE Bind(<<find(response_text, "{"), find(response_text, "}") + 1>>, LAMBDA idx :
             IF idx[1] = 0 - 1 \/ idx[2] = 0 THEN EmptyData
             ELSE Bind(json_loads(SubSeq(response_text, idx[1] + 1, idx[2])), LAMBDA r :
                      IF r.ok THEN r.val ELSE EmptyData))

\* _parse_llm_response; response_text None makes find raise AttributeError
parse_llm_response(response_text) ==
    IF response_text = None THEN EmptyData
    ELSE Bind(<<find(response_text, "{"), rfind(response_text, "}") + 1>>, LAMBDA idx :
             IF idx[1] = 0 - 1 \/ idx[2] = 0 THEN EmptyData
             ELSE Bind(json_loads(SubSeq(response_text, idx[1] + 1, idx[2])), LAMBDA r :
                      IF r.ok THEN r.val ELSE EmptyData))

\* the object of Scenario C between two pieces of prose
ScenarioC == "Here is the analysis: {\"testcases\": [], \"configs\": [], \"confidence\": 0.0} Let me know."

\* model replies: well-formed, without JSON, truncated, with the braces in
\* reverse order, with braces in the prose, with null or wrongly typed fields
ReplyLogin ==
    "{\"testcases\": [{\"step\": \"Click the login button.\", \"expected_result\": \"Dashboard\"}], \"confidence\": 0.9}"

ReplyEmail ==
    "{\"testcases\": [{\"step\": \"Check the email field\", \"expected_result\": \"Field is shown\"}], \"configs\": [\"Logos\"]}"

ReplyProse == "Sorry, I cannot analyse this page."

ReplyTruncated == "{\"testcases\": [{\"step\": \"Click"

ReplyReversed == "done } see {"

ReplyBracedProse == "See {braces} then {\"testcases\": []} and {more}"

ReplyNull == "{\"testcases\": null}"

ReplyNumber == "{\"testcases\": 5, \"configs\": null}"

ReplyText == "{\"testcases\": \"no testcases found\"}"

ReplyMixed == "{\"testcases\": [\"Click\", null], \"configs\": [\"Logos\"]}"

\* a testcase with a step of its own and the expected result of ReplyLogin
ReplyDashboard ==
    "{\"testcases\": [{\"step\": \"Open the start page\", \"expected_result\": \" dashboard\"}]}"

ReplyPool ==
    {ScenarioC, ReplyLogin, ReplyEmail, ReplyProse, ReplyTruncated, ReplyReversed,
     ReplyBracedProse, ReplyNull, ReplyNumber, ReplyText, ReplyMixed, ReplyDashboard}

\* _parse_llm_response on the replies of the pool and on a missing content
AnalysisData == [text \in ReplyPool \cup {None} |-> parse_llm_response(text)]

(***************************************************************************)
(* analyze_qa_content and analyze_qa_content_enhanced                      *)
(***************************************************************************)
\* client.chat.completions.create raises
ApiFailure == "<APIError>"

\* the fields of QAAnalysisResult the loader and the enhanced analyzer read
QAAnalysisResult(tcs, cfgs, confidence, method) ==
    [testcases |-> tcs, configs |-> cfgs,
     analysis_confidence |-> confidence, parsing_method |-> method]

\* _fallback_analysis
fallback_analysis == QAAnalysisResult(JList(<<>>), JList(<<>>), JNum("0.1"), "fallback")

\* analyze_qa_content for the reply of the API: a text, None, or ApiFailure
analyze_qa_content(reply) ==
    IF reply = ApiFailure THEN fallback_analysis
    ELSE QAAnalysisResult(JGet(AnalysisData[reply], "testcases", JList(<<>>)),
                          JGet(AnalysisData[reply], "configs", JList(<<>>)),
                          JGet(AnalysisData[reply], "confidence", JNum("0.0")),
                          "llm")

AnalysisOf == [reply \in ReplyPool \cup {None, ApiFailure} |-> analyze_qa_content(reply)]

\* len(v) raises TypeError
len_raises(v) == v.type \in {"null", "bool", "number"}

\* len(v) of a list, a str or a dict
py_len(v) ==
    IF v.type = "list" THEN Len(v.items)
    ELSE IF v.type = "string" THEN Len(v.text)
    ELSE Len(v.keys)

\* list(v) and the elements a for loop over v visits, of a list, a str or a dict
py_list(v) ==
    IF v.type = "list" THEN v.items
    ELSE IF v.type = "string" THEN [i \in 1..Len(v.text) |-> JStr(Chr(v.text, i))]
    ELSE [i \in 1..Len(v.keys) |-> JStr(v.keys[i])]

\* testcase.get(key, '').strip().lower() raises AttributeError
text_raises(testcase, key) ==
    testcase.type # "dict" \/ JGet(testcase, key, JStr("")).type # "string"

\* testcase.get(key, '').strip().lower()
text_of(testcase, key) == lower(strip(JGet(testcase, key, JStr("")).text))

\* text[:50]
first_50(text) == SubSeq(text, 1, IF Len(text) < 50 THEN Len(text) ELSE 50)

\* _is_duplicate_testcase comparing the steps only
is_duplicate_testcase_step_only(testcase, existing_testcases) ==
    IF text_raises(testcase, "step") \/ text_raises(testcase, "expected_result") THEN "raise"
    ELSE IF text_of(testcase, "step") = "" /\ text_of(testcase, "expected_result") = ""
    THEN "duplicate"
    ELSE IF \E k \in 1..Len(existing_testcases) :
                \/ text_raises(existing_testcases[k], "step")
                \/ text_raises(existing_testcases[k], "expected_result")
    THEN "raise"
    ELSE IF \E k \in 1..Len(existing_testcases) :
                /\ text_of(testcase, "step") # ""
                /\ first_50(text_of(testcase, "step"))
                       = first_50(text_of(existing_testcases[k], "step"))
    THEN "duplicate"
    ELSE "new"

\* _is_duplicate_testcase: "raise", "duplicate" or "new"
is_duplicate_testcase(testcase, existing_testcases) ==
    IF text_raises(testcase, "step") \/ text_raises(testcase, "expected_result") THEN "raise"
    ELSE IF text_of(testcase, "step") = "" /\ text_of(testcase, "expected_result") = ""
    THEN "duplicate"
    ELSE LET raises(e) == text_raises(e, "step") \/ text_raises(e, "expected_result")
             similar(e) ==
                 \/ /\ text_of(testcase, "step") # "" /\ text_of(e, "step") # ""
                    /\ first_50(text_of(testcase, "step")) = first_50(text_of(e, "step"))
                 \/ /\ text_of(testcase, "expected_result") # ""
                    /\ text_of(e, "expected_result") # ""
                    /\ first_50(text_of(testcase, "expected_result"))
                           = first_50(text_of(e, "expected_result"))
             decided == {k \in 1..Len(existing_testcases) :
                            raises(existing_testcases[k]) \/ similar(existing_testcases[k])}
         IN IF decided = {} THEN "new"
            ELSE IF raises(existing_testcases[CHOOSE k \in decided : \A h \in decided : k <= h])
            THEN "raise"
            ELSE "duplicate"

\* testcase['order_index'] = n
set_order_index(testcase, n) ==
    IF \E k \in 1..Len(testcase.keys) : testcase.keys[k] = "order_index"
    THEN [testcase EXCEPT !.items =
              [k \in 1..Len(testcase.keys) |->
                  IF testcase.keys[k] = "order_index" THEN JNum(ToString(n)) ELSE testcase.items[k]]]
    ELSE [testcase EXCEPT !.keys = Append(testcase.keys, "order_index"),
                          !.items = Append(testcase.items, JNum(ToString(n)))]

\* _enhance_testcase_extraction, lines 73-76: enhanced_testcases after the
\* loop over the testcases of one block; an exception ends the loop
RECURSIVE add_block_testcases(_, _)
add_block_testcases(enhanced, block_testcases) ==
    IF block_testcases = <<>> THEN enhanced
    ELSE Bind(is_duplicate_testcase(Head(block_testcases), enhanced), LAMBDA outcome :
             IF outcome = "raise" THEN enhanced
             ELSE IF outcome = "duplicate"
                  THEN add_block_testcases(enhanced, Tail(block_testcases))
                  ELSE add_block_testcases(
                           Append(enhanced, set_order_index(Head(block_testcases), Len(enhanced))),
                           Tail(block_testcases)))

\* _enhance_testcase_extraction, lines 67-80: enhanced_testcases after one
\* block whose analysis is block_analysis
enhance_block(enhanced, block_analysis) ==
    IF len_raises(block_analysis.testcases) THEN enhanced
    ELSE add_block_testcases(enhanced, py_list(block_analysis.testcases))

\* the analyzer before a call
NoAnalysis == QAAnalysisResult(JNull, JNull, JNull, "")

\* load_data before it has returned
NoBatchResult ==
    [success |-> FALSE, documents_processed |-> 0, checklists_created |-> 0,
     testcases_created |-> 0, skipped_checklists |-> 0]

\* result of _process_page_unified before the MySQL part has run
NoUnifiedResult == [mysql_success |-> FALSE, testcases_created |-> 0, mysql_reason |-> ""]

\* no batch is modelled
BatchIdle ==
    /\ b_pc = "idle"
    /\ pages = <<>>
    /\ page_i = 0
    /\ limit = 0
    /\ created_checklists = 0
    /\ created_testcases = 0
    /\ skipped_checklists = 0
    /\ processed_pages = 0
    /\ documents_processed = 0
    /\ existing_checklists = {}
    /\ batch_result = NoBatchResult
    /\ unified_result = NoUnifiedResult

\* no call of the analyzer is modelled
AnalyzeIdle ==
    /\ an_pc = "idle"
    /\ result_text = None
    /\ analysis_data = JNull
    /\ analysis = NoAnalysis
    /\ enhanced_testcases = <<>>
    /\ blocks_left = 0

\* no concurrent calls are modelled
TasksIdle == frames = <<>>

\* no schema detection in progress
DetectIdle ==
    /\ d_pc = "idle"
    /\ header_row = <<>>
    /\ headers = <<>>
    /\ schema_i = 0
    /\ best_match = 0
    /\ best_score = <<0, 1>>
    /\ detected = None

\* no MCP tool function called
ToolsIdle ==
    /\ t_pc = "idle"
    /\ tool_call = None
    /\ touched = <<>>
    /\ response = None

AuxIdle == DetectIdle /\ ToolsIdle

ExtIdle == AnalyzeIdle /\ BatchIdle /\ TasksIdle /\ AuxIdle

(***************************************************************************)
(* State machine of _process_page_mysql for one page                       *)
(***************************************************************************)
NoResult == [success |-> FALSE, testcases_created |-> 0, reason |-> "pending"]

\* the locals of _process_page_mysql before the page is processed
PageReset ==
    /\ schema = NoSchema
    /\ rows = <<>>
    /\ rows_read = 0
    /\ current_section = "GENERAL"
    /\ current_functionality = None
    /\ table_testcases = <<>>
    /\ testcases = <<>>
    /\ tables_done = 0
    /\ parse_error = FALSE
    /\ html_testcases = <<>>
    /\ ai_testcases = <<>>
    /\ ai_configs = <<>>
    /\ analysis_bound = FALSE
    /\ all_testcases = <<>>
    /\ dedup_i = 0
    /\ unique_testcases = <<>>
    /\ seen_hashes = {}
    /\ db_testcases = <<>>
    /\ result = NoResult

InitPage == pc = "html" /\ PageReset

Init == InitPage /\ ExtIdle

\* parse_testcases_from_html: the loop reaches the next testcase table;
\* _parse_table detects its schema and initialises its locals
BeginTable(maxTables, schemas) ==
    /\ pc = "html"
    /\ tables_done < maxTables
    /\ \E sch \in schemas : schema' = sch
    /\ rows' = <<>>
    /\ current_section' = "GENERAL"
    /\ current_functionality' = None
    /\ table_testcases' = <<>>
    /\ pc' = "table"
    /\ UNCHANGED <<rows_read, testcases, tables_done, parse_error>>
    /\ UNCHANGED <<html_testcases, ai_testcases, ai_configs, analysis_bound,
                   merge_vars, db_testcases, result>>
    /\ UNCHANGED ext_vars

\* _parse_table: the row loop has a next row
HasNextRow(maxRows) == pc = "table" /\ rows_read < maxRows

\* frame shared by the three branches of the row loop of _parse_table
ReadRow(cells) ==
    /\ rows' = Append(rows, cells)
    /\ rows_read' = rows_read + 1
    /\ UNCHANGED <<pc, schema, testcases, tables_done, parse_error>>
    /\ UNCHANGED <<html_testcases, ai_testcases, ai_configs, analysis_bound,
                   merge_vars, db_testcases, result>>
    /\ UNCHANGED ext_vars

\* _parse_table: the row is a section header
SectionHeaderRow(maxRows, pool) ==
    /\ HasNextRow(maxRows)
    /\ \E cells \in pool :
           /\ ~RowFacts[cells].raises
           /\ RowFacts[cells].section_header
           /\ ReadRow(cells)
           /\ current_section' = RowFacts[cells].section_info.section
           /\ current_functionality' = RowFacts[cells].section_info.functionality
           /\ UNCHANGED table_testcases

\* _parse_table: the row is a subsection header (divider)
DividerRow(maxRows, pool) ==
    /\ HasNextRow(maxRows)
    /\ \E cells \in pool :
           /\ ~RowFacts[cells].raises
           /\ ~RowFacts[cells].section_header
           /\ RowFacts[cells].subsection_header
           /\ ReadRow(cells)
           /\ current_functionality' =
                  IF Truthy(RowFacts[cells].divider_functionality)
                  THEN RowFacts[cells].divider_functionality
                  ELSE current_functionality
           /\ UNCHANGED <<current_section, table_testcases>>

\* TestcaseRow that forgets the functionality once a row has been parsed
TestcaseRow_resets(maxRows, pool) ==
    /\ HasNextRow(maxRows)
    /\ \E cells \in pool :
           /\ ~RowFacts[cells].raises
           /\ ~RowFacts[cells].section_header
           /\ ~RowFacts[cells].subsection_header
           /\ ReadRow(cells)
           /\ table_testcases' = table_testcases \o
                  ParsedRow[<<cells, schema, current_section, current_functionality>>]
           /\ current_functionality' = None
           /\ UNCHANGED current_section

\* TestcaseRow without the two tests made before it
TestcaseRow_unclassified(maxRows, pool) ==
    /\ HasNextRow(maxRows)
    /\ \E cells \in pool :
           /\ ~RowFacts[cells].raises
           /\ ReadRow(cells)
           /\ table_testcases' = table_testcases \o
                  ParsedRow[<<cells, schema, current_section, current_functionality>>]
           /\ UNCHANGED <<current_section, current_functionality>>

\* _parse_table: the row is handed to _parse_testcase_row
TestcaseRow(maxRows, pool) ==
    /\ HasNextRow(maxRows)
    /\ \E cells \in pool :
           /\ ~RowFacts[cells].raises
           /\ ~RowFacts[cells].section_header
           /\ ~RowFacts[cells].subsection_header
           /\ ReadRow(cells)
           /\ table_testcases' = table_testcases \o
                  ParsedRow[<<cells, schema, current_section, current_functionality>>]
           /\ UNCHANGED <<current_section, current_functionality>>

\* RowRaises that returns the testcases of the tables parsed before
RowRaises_partial(maxRows, pool) ==
    /\ HasNextRow(maxRows)
    /\ \E cells \in pool : RowFacts[cells].raises
    /\ parse_error' = TRUE
    /\ html_testcases' = testcases
    /\ pc' = "ai"
    /\ schema' = NoSchema
    /\ rows' = <<>>
    /\ current_section' = "GENERAL"
    /\ current_functionality' = None
    /\ table_testcases' = <<>>
    /\ UNCHANGED <<rows_read, testcases, tables_done>>
    /\ UNCHANGED <<ai_testcases, ai_configs, analysis_bound, merge_vars, db_testcases, result>>
    /\ UNCHANGED ext_vars

\* _parse_table: _is_section_header_row raises on the row; the handler of
\* parse_testcases_from_html returns []. The frames of _parse_table and of
\* the try block are left and what was parsed so far is dropped
RowRaises(maxRows, pool) ==
    /\ HasNextRow(maxRows)
    /\ \E cells \in pool : RowFacts[cells].raises
    /\ parse_error' = TRUE
    /\ html_testcases' = <<>>
    /\ pc' = "ai"
    /\ schema' = NoSchema
    /\ rows' = <<>>
    /\ current_section' = "GENERAL"
    /\ current_functionality' = None
    /\ table_testcases' = <<>>
    /\ UNCHANGED <<rows_read, testcases, tables_done>>
    /\ UNCHANGED <<ai_testcases, ai_configs, analysis_bound, merge_vars, db_testcases, result>>
    /\ UNCHANGED ext_vars

\* _parse_table returns; parse_testcases_from_html extends its list
EndTable ==
    /\ pc = "table"
    /\ testcases' = testcases \o table_testcases
    /\ tables_done' = tables_done + 1
    /\ schema' = NoSchema
    /\ rows' = <<>>
    /\ current_section' = "GENERAL"
    /\ current_functionality' = None
    /\ table_testcases' = <<>>
    /\ pc' = "html"
    /\ UNCHANGED <<rows_read, parse_error>>
    /\ UNCHANGED <<html_testcases, ai_testcases, ai_configs, analysis_bound,
                   merge_vars, db_testcases, result>>
    /\ UNCHANGED ext_vars

\* parse_testcases_from_html returns to _process_page_mysql
ParseReturn ==
    /\ pc = "html"
    /\ html_testcases' = testcases
    /\ testcases' = <<>>
    /\ pc' = "ai"
    /\ UNCHANGED <<schema, rows, rows_read, current_section, current_functionality,
                   table_testcases, tables_done, parse_error>>
    /\ UNCHANGED <<ai_testcases, ai_configs, analysis_bound, merge_vars, db_testcases, result>>
    /\ UNCHANGED ext_vars

\* _process_page_mysql: the analysis returns a QAAnalysisResult whose testcases
\* are one of replies
AnalysisReturns(replies) ==
    /\ pc = "ai"
    /\ \E reply \in replies, configs \in ConfigReplies :
           /\ ai_testcases' = reply
           /\ ai_configs' = configs
    /\ analysis_bound' = TRUE
    /\ pc' = "merge"
    /\ UNCHANGED parse_vars
    /\ UNCHANGED <<html_testcases, merge_vars, db_testcases, result>>
    /\ UNCHANGED ext_vars

\* _process_page_mysql: the analysis raises before analysis_result is assigned
AnalysisRaises ==
    /\ pc = "ai"
    /\ analysis_bound' = FALSE
    /\ pc' = "merge"
    /\ UNCHANGED parse_vars
    /\ UNCHANGED <<html_testcases, ai_testcases, ai_configs, merge_vars, db_testcases, result>>
    /\ UNCHANGED ext_vars

\* MergeResults with the HTML result primary from PrimaryThreshold testcases on
MergeResults_at_threshold ==
    /\ pc = "merge"
    /\ all_testcases' = IF Len(html_testcases) >= PrimaryThreshold
                        THEN html_testcases \o ai_testcases
                        ELSE ai_testcases \o html_testcases
    /\ dedup_i' = 0
    /\ unique_testcases' = <<>>
    /\ seen_hashes' = {}
    /\ pc' = "dedup"
    /\ UNCHANGED parse_vars
    /\ UNCHANGED <<html_testcases, ai_testcases, ai_configs, analysis_bound, db_testcases, result>>
    /\ UNCHANGED ext_vars

\* _process_page_mysql: primary-source selection and the call of _remove_duplicates
MergeResults ==
    /\ pc = "merge"
    /\ all_testcases' = IF Len(html_testcases) > PrimaryThreshold
                        THEN html_testcases \o ai_testcases
                        ELSE ai_testcases \o html_testcases
    /\ dedup_i' = 0
    /\ unique_testcases' = <<>>
    /\ seen_hashes' = {}
    /\ pc' = "dedup"
    /\ UNCHANGED parse_vars
    /\ UNCHANGED <<html_testcases, ai_testcases, ai_configs, analysis_bound, db_testcases, result>>
    /\ UNCHANGED ext_vars

\* frame shared by the branches of the loop of _remove_duplicates
DedupFrame ==
    /\ pc = "dedup"
    /\ dedup_i < Len(all_testcases)
    /\ dedup_i' = dedup_i + 1
    /\ UNCHANGED <<pc, all_testcases>>
    /\ UNCHANGED parse_vars
    /\ UNCHANGED <<html_testcases, ai_testcases, ai_configs, analysis_bound, db_testcases, result>>
    /\ UNCHANGED ext_vars

\* _remove_duplicates: the step is too short, continue
DedupSkipShort ==
    /\ DedupFrame
    /\ too_short(all_testcases[dedup_i + 1])
    /\ UNCHANGED <<unique_testcases, seen_hashes>>

\* _remove_duplicates: first testcase with this hash
DedupKeepNew ==
    LET testcase == all_testcases[dedup_i + 1] IN
    /\ DedupFrame
    /\ ~too_short(testcase)
    /\ testcase_hash(testcase) \notin seen_hashes
    /\ seen_hashes' = seen_hashes \cup {testcase_hash(testcase)}
    /\ unique_testcases' = Append(unique_testcases, testcase)

\* _remove_duplicates: the hash was seen, replace the kept testcase if this one is better
DedupDuplicate ==
    /\ DedupFrame
    /\ ~too_short(all_testcases[dedup_i + 1])
    /\ testcase_hash(all_testcases[dedup_i + 1]) \in seen_hashes
    /\ unique_testcases' = replace_if_better(unique_testcases, all_testcases[dedup_i + 1])
    /\ UNCHANGED seen_hashes

\* DedupReturn without the check for an empty result
DedupReturn_always_persist ==
    /\ pc = "dedup"
    /\ dedup_i = Len(all_testcases)
    /\ pc' = "persist"
    /\ UNCHANGED result
    /\ UNCHANGED parse_vars
    /\ UNCHANGED <<html_testcases, ai_testcases, ai_configs, analysis_bound,
                   merge_vars, db_testcases>>
    /\ UNCHANGED ext_vars

\* _remove_duplicates returns; _process_page_mysql checks that the result is valid
DedupReturn ==
    /\ pc = "dedup"
    /\ dedup_i = Len(all_testcases)
    /\ IF unique_testcases = <<>> /\ ai_configs = <<>>
       THEN /\ result' = [success |-> FALSE, testcases_created |-> 0,
                          reason |-> "no testcases or configs"]
            /\ pc' = "done"
       ELSE /\ pc' = "persist"
            /\ UNCHANGED result
    /\ UNCHANGED parse_vars
    /\ UNCHANGED <<html_testcases, ai_testcases, ai_configs, analysis_bound,
                   merge_vars, db_testcases>>
    /\ UNCHANGED ext_vars

\* priority passed to TestCase(...)
db_priority(priority) ==
    IF Truthy(priority) /\ priority \notin {"LOWEST", "LOW", "MEDIUM", "HIGH", "HIGHEST", "CRITICAL"}
    THEN "MEDIUM"
    ELSE priority

\* the TestCase row built from a testcase dictionary
TestCaseRow(testcase_data) ==
    [step |-> testcase_data.step,
     expected_result |-> testcase_data.expected_result,
     screenshot |-> testcase_data.screenshot,
     priority |-> db_priority(testcase_data.priority),
     test_group |-> testcase_data.test_group,
     functionality |-> testcase_data.functionality,
     subcategory |-> testcase_data.subcategory,
     order_index |-> IF testcase_data.order_index = Absent THEN 0 ELSE testcase_data.order_index,
     qa_auto_coverage |-> testcase_data.qa_auto_coverage]

\* created_rows without the test on step and expected_result
created_rows_unfiltered(tcs) == [i \in 1..Len(tcs) |-> TestCaseRow(tcs[i])]

\* the rows added by the loop over unique_testcases
RECURSIVE created_rows(_)
created_rows(tcs) ==
    IF tcs = <<>> THEN <<>>
    ELSE (IF Truthy(Head(tcs).expected_result) /\ Truthy(Head(tcs).step)
          THEN <<TestCaseRow(Head(tcs))>> ELSE <<>>) \o created_rows(Tail(tcs))

\* _process_page_mysql: create the checklist and its testcases, commit
PersistPage ==
    /\ pc = "persist"
    /\ IF analysis_bound
       THEN /\ db_testcases' = created_rows(unique_testcases)
            /\ result' = [success |-> TRUE,
                          testcases_created |-> Len(created_rows(unique_testcases)),
                          reason |-> ""]
       ELSE \* analysis_result is read unbound: the handler of the method returns
            /\ result' = [success |-> FALSE, testcases_created |-> 0, reason |-> "error"]
            /\ UNCHANGED db_testcases
    /\ pc' = "done"
    /\ UNCHANGED parse_vars
    /\ UNCHANGED <<html_testcases, ai_testcases, ai_configs, analysis_bound, merge_vars>>
    /\ UNCHANGED ext_vars

ParsePage(maxTables, maxRows, schemas, pool) ==
    \/ BeginTable(maxTables, schemas)
    \/ SectionHeaderRow(maxRows, pool)
    \/ DividerRow(maxRows, pool)
    \/ TestcaseRow(maxRows, pool)
    \/ RowRaises(maxRows, pool)
    \/ EndTable
    \/ ParseReturn

MergePage ==
    \/ AnalysisRaises
    \/ MergeResults
    \/ DedupSkipShort
    \/ DedupKeepNew
    \/ DedupDuplicate
    \/ DedupReturn
    \/ PersistPage

Next ==
    \/ ParsePage(MaxTables, MaxPageRows, SchemaPool, PageRows)
    \/ AnalysisReturns(LlmReplies)
    \/ MergePage

Spec == Init /\ [][Next]_vars

\* the parser alone, on one table of either schema made of heading rows
NextDividers == ParsePage(1, MaxDividerRows, SchemaPool, DividerRows)

SpecDividers == Init /\ [][NextDividers]_vars

\* the parser alone, on one longer table of the 7-column schema
NextParse == ParsePage(1, MaxRows, {standard_7_col}, WideRows)

SpecParse == Init /\ [][NextParse]_vars

(***************************************************************************)
(* Merge of a long table: the page holds one table of 9 to MaxBigTable     *)
(* testcase rows, parsed by parse_table                                    *)
(***************************************************************************)
BigLlmReplies == SeqsUpTo(BigLlmPool, MaxBigLlm)

InitMerge ==
    /\ pc = "ai"
    /\ schema = NoSchema
    /\ rows = <<>>
    /\ rows_read \in (PrimaryThreshold - 1)..MaxBigTable
    /\ current_section = "GENERAL"
    /\ current_functionality = None
    /\ table_testcases = <<>>
    /\ testcases = <<>>
    /\ tables_done = 1
    /\ parse_error = FALSE
    /\ html_testcases = SubSeq(BigParsed, 1, rows_read)
    /\ ai_testcases = <<>>
    /\ ai_configs = <<>>
    /\ analysis_bound = FALSE
    /\ all_testcases = <<>>
    /\ dedup_i = 0
    /\ unique_testcases = <<>>
    /\ seen_hashes = {}
    /\ db_testcases = <<>>
    /\ result = NoResult
    /\ ExtIdle

NextMerge == AnalysisReturns(BigLlmReplies) \/ MergePage

SpecMerge == InitMerge /\ [][NextMerge]_vars

(***************************************************************************)
(* _remove_duplicates alone: the page's parser result is a list X of up to *)
(* MaxDedupLen testcases, the analysis returns no testcase or X again      *)
(***************************************************************************)
DedupLists == SeqsUpTo(DedupPool, MaxDedupLen)

InitDedup ==
    /\ pc = "ai"
    /\ schema = NoSchema
    /\ rows = <<>>
    /\ rows_read = 0
    /\ current_section = "GENERAL"
    /\ current_functionality = None
    /\ table_testcases = <<>>
    /\ testcases = <<>>
    /\ tables_done = 0
    /\ parse_error = FALSE
    /\ html_testcases \in DedupLists
    /\ ai_testcases = <<>>
    /\ ai_configs = <<>>
    /\ analysis_bound = FALSE
    /\ all_testcases = <<>>
    /\ dedup_i = 0
    /\ unique_testcases = <<>>
    /\ seen_hashes = {}
    /\ db_testcases = <<>>
    /\ result = NoResult
    /\ ExtIdle

NextDedup == AnalysisReturns({<<>>, html_testcases}) \/ MergePage

SpecDedup == InitDedup /\ [][NextDedup]_vars

(***************************************************************************)
(* State machine of one call of analyze_qa_content_enhanced, or of         *)
(* analyze_qa_content alone, on a content of blocks_left long blocks       *)
(***************************************************************************)
InitAnalyze ==
    /\ InitPage
    /\ BatchIdle
    /\ TasksIdle
    /\ AuxIdle
    /\ an_pc = "call"
    /\ result_text = None
    /\ analysis_data = JNull
    /\ analysis = NoAnalysis
    /\ enhanced_testcases = <<>>
    /\ blocks_left \in 0..MaxBlocks

\* analyze_qa_content: the API call returns reply or raises, the reply is
\* parsed and the result is built
AnalyzeContent(replies) ==
    /\ an_pc = "call"
    /\ \E reply \in replies :
           /\ result_text' = IF reply = ApiFailure THEN result_text ELSE reply
           /\ analysis_data' = IF reply = ApiFailure THEN JNull ELSE AnalysisData[reply]
           /\ analysis' = AnalysisOf[reply]
    /\ an_pc' = "analyzed"
    /\ UNCHANGED <<enhanced_testcases, blocks_left>>
    /\ UNCHANGED <<page_vars, batch_vars, frames, aux_vars>>

\* analyze_qa_content was called by the loader itself: it returns
AnalyzeReturn ==
    /\ an_pc = "analyzed"
    /\ an_pc' = "returned"
    /\ UNCHANGED <<result_text, analysis_data, analysis, enhanced_testcases, blocks_left>>
    /\ UNCHANGED <<page_vars, batch_vars, frames, aux_vars>>

\* analyze_qa_content_enhanced: len(initial_analysis.testcases) raises
EnhancedLenRaises ==
    /\ an_pc = "analyzed"
    /\ len_raises(analysis.testcases)
    /\ an_pc' = "raised"
    /\ UNCHANGED <<result_text, analysis_data, analysis, enhanced_testcases, blocks_left>>
    /\ UNCHANGED <<page_vars, batch_vars, frames, aux_vars>>

\* analyze_qa_content_enhanced: 10 testcases or more, initial_analysis is returned
EnhancedEnough ==
    /\ an_pc = "analyzed"
    /\ ~len_raises(analysis.testcases)
    /\ py_len(analysis.testcases) >= EnhanceThreshold
    /\ an_pc' = "returned"
    /\ UNCHANGED <<result_text, analysis_data, analysis, enhanced_testcases, blocks_left>>
    /\ UNCHANGED <<page_vars, batch_vars, frames, aux_vars>>

\* analyze_qa_content_enhanced: fewer than 10 testcases;
\* _enhance_testcase_extraction copies them
EnhanceBegin ==
    /\ an_pc = "analyzed"
    /\ ~len_raises(analysis.testcases)
    /\ py_len(analysis.testcases) < EnhanceThreshold
    /\ enhanced_testcases' = py_list(analysis.testcases)
    /\ an_pc' = "blocks"
    /\ UNCHANGED <<result_text, analysis_data, analysis, blocks_left>>
    /\ UNCHANGED <<page_vars, batch_vars, frames, aux_vars>>

\* _enhance_testcase_extraction: one long block is analysed
EnhanceBlock(replies) ==
    /\ an_pc = "blocks"
    /\ blocks_left > 0
    /\ \E reply \in replies :
           enhanced_testcases' = enhance_block(enhanced_testcases, AnalysisOf[reply])
    /\ blocks_left' = blocks_left - 1
    /\ UNCHANGED <<an_pc, result_text, analysis_data, analysis>>
    /\ UNCHANGED <<page_vars, batch_vars, frames, aux_vars>>

\* _enhance_testcase_extraction returns; analyze_qa_content_enhanced builds
\* its result
EnhancedReturn ==
    /\ an_pc = "blocks"
    /\ blocks_left = 0
    /\ analysis' = QAAnalysisResult(JList(enhanced_testcases), analysis.configs,
                                    analysis.analysis_confidence, "enhanced_llm")
    /\ an_pc' = "returned"
    /\ UNCHANGED <<result_text, analysis_data, enhanced_testcases, blocks_left>>
    /\ UNCHANGED <<page_vars, batch_vars, frames, aux_vars>>

ApiReplies == ReplyPool \cup {None, ApiFailure}

NextAnalyze ==
    \/ AnalyzeContent(ApiReplies)
    \/ AnalyzeReturn
    \/ EnhancedLenRaises
    \/ EnhancedEnough
    \/ EnhanceBegin
    \/ EnhanceBlock(ApiReplies)
    \/ EnhancedReturn

SpecAnalyze == InitAnalyze /\ [][NextAnalyze]_vars

(***************************************************************************)
(* State machine of load_data with load_vector off: a batch of up to       *)
(* MaxPages pages, each processed by _process_page_unified                 *)
(***************************************************************************)
\* a page of the batch: kind "ok" has content, "no_content" has none,
\* "malformed" is a dictionary without the key 'title'
Page(id, kind) == [id |-> id, kind |-> kind]

PagePool == {Page(id, kind) : id \in 1..2, kind \in {"ok", "no_content", "malformed"}}

\* _load_existing_checklists: the pages that have a checklist before the batch
ExistingPool == {{}, {2}}

\* the rows and the model replies of the pages of a batch
BatchRows == {TcLogin, SecCustom, DivRoute, BadSpan}

BatchReplies == SeqsUpTo({t \in LlmPool : t.step \in {"Click the login button.", "Log in"}}, 1)

InitBatch ==
    /\ pc = "idle"
    /\ PageReset
    /\ AnalyzeIdle
    /\ TasksIdle
    /\ AuxIdle
    /\ b_pc = "loop"
    /\ pages \in SeqsUpTo(PagePool, MaxPages)
    /\ page_i = 0
    /\ limit \in 0..MaxLimit
    /\ created_checklists = 0
    /\ created_testcases = 0
    /\ skipped_checklists = 0
    /\ processed_pages = 0
    /\ documents_processed = 0
    /\ existing_checklists \in ExistingPool
    /\ batch_result = NoBatchResult
    /\ unified_result = NoUnifiedResult

\* load_data: the loop has a next page and the limit is not reached
HasNextPage ==
    /\ b_pc = "loop"
    /\ page_i < Len(pages)
    /\ ~(limit # 0 /\ created_checklists >= limit)

\* load_data: the limit is reached, break
LimitBreak ==
    /\ b_pc = "loop"
    /\ page_i < Len(pages)
    /\ limit # 0 /\ created_checklists >= limit
    /\ b_pc' = "after"
    /\ UNCHANGED <<pages, page_i, limit, progress_vars, batch_result, unified_result>>
    /\ UNCHANGED <<page_vars, analyze_vars, frames, aux_vars>>

\* PageMalformed with the exception leaving the loop: the handler of
\* load_data re-raises
PageMalformed_aborts ==
    /\ HasNextPage
    /\ pages[page_i + 1].kind = "malformed"
    /\ b_pc' = "raised"
    /\ UNCHANGED <<pages, page_i, limit, progress_vars, batch_result, unified_result>>
    /\ UNCHANGED <<page_vars, analyze_vars, frames, aux_vars>>

\* page['title'] raises KeyError inside the try of the loop; load_data catches
\* it and continues with the next page
PageMalformed ==
    /\ HasNextPage
    /\ pages[page_i + 1].kind = "malformed"
    /\ page_i' = page_i + 1
    /\ UNCHANGED <<b_pc, pages, limit, progress_vars, batch_result, unified_result>>
    /\ UNCHANGED <<page_vars, analyze_vars, frames, aux_vars>>

\* _process_page_unified: the page has a checklist already; load_data counts
\* it as skipped
PageExists ==
    /\ HasNextPage
    /\ pages[page_i + 1].kind # "malformed"
    /\ pages[page_i + 1].id \in existing_checklists
    /\ documents_processed' = documents_processed + 1
    /\ skipped_checklists' = skipped_checklists + 1
    /\ processed_pages' = processed_pages + 1
    /\ page_i' = page_i + 1
    /\ unified_result' = [NoUnifiedResult EXCEPT !.mysql_reason = "already exists"]
    /\ UNCHANGED <<b_pc, pages, limit, created_checklists, created_testcases,
                   existing_checklists, batch_result>>
    /\ UNCHANGED <<page_vars, analyze_vars, frames, aux_vars>>

\* StartPage without the look-up in _existing_checklists
StartPage_unchecked ==
    /\ HasNextPage
    /\ pages[page_i + 1].kind # "malformed"
    /\ b_pc' = "page"
    /\ pc' = "html"
    /\ schema' = NoSchema
    /\ rows' = <<>>
    /\ rows_read' = 0
    /\ current_section' = "GENERAL"
    /\ current_functionality' = None
    /\ table_testcases' = <<>>
    /\ testcases' = <<>>
    /\ tables_done' = 0
    /\ parse_error' = FALSE
    /\ html_testcases' = <<>>
    /\ ai_testcases' = <<>>
    /\ ai_configs' = <<>>
    /\ analysis_bound' = FALSE
    /\ all_testcases' = <<>>
    /\ dedup_i' = 0
    /\ unique_testcases' = <<>>
    /\ seen_hashes' = {}
    /\ db_testcases' = <<>>
    /\ result' = NoResult
    /\ UNCHANGED <<pages, page_i, limit, progress_vars, batch_result, unified_result>>
    /\ UNCHANGED <<analyze_vars, frames, aux_vars>>

\* _process_page_unified calls _process_page_mysql
StartPage ==
    /\ HasNextPage
    /\ pages[page_i + 1].kind # "malformed"
    /\ pages[page_i + 1].id \notin existing_checklists
    /\ b_pc' = "page"
    /\ pc' = "html"
    /\ schema' = NoSchema
    /\ rows' = <<>>
    /\ rows_read' = 0
    /\ current_section' = "GENERAL"
    /\ current_functionality' = None
    /\ table_testcases' = <<>>
    /\ testcases' = <<>>
    /\ tables_done' = 0
    /\ parse_error' = FALSE
    /\ html_testcases' = <<>>
    /\ ai_testcases' = <<>>
    /\ ai_configs' = <<>>
    /\ analysis_bound' = FALSE
    /\ all_testcases' = <<>>
    /\ dedup_i' = 0
    /\ unique_testcases' = <<>>
    /\ seen_hashes' = {}
    /\ db_testcases' = <<>>
    /\ result' = NoResult
    /\ UNCHANGED <<pages, page_i, limit, progress_vars, batch_result, unified_result>>
    /\ UNCHANGED <<analyze_vars, frames, aux_vars>>

\* _process_page_mysql: get_page_content returns nothing
NoContent ==
    /\ b_pc = "page"
    /\ pc = "html"
    /\ tables_done = 0
    /\ pages[page_i + 1].kind = "no_content"
    /\ result' = [success |-> FALSE, testcases_created |-> 0, reason |-> "no content"]
    /\ pc' = "done"
    /\ UNCHANGED parse_vars
    /\ UNCHANGED <<html_testcases, ai_testcases, ai_configs, analysis_bound, merge_vars, db_testcases>>
    /\ UNCHANGED ext_vars

\* the steps of _process_page_mysql on a page with content
ProcessPage ==
    /\ b_pc = "page"
    /\ pages[page_i + 1].kind = "ok"
    /\ \/ ParsePage(1, 1, {standard_7_col}, BatchRows)
       \/ AnalysisReturns(BatchReplies)
       \/ MergePage

\* _process_page_mysql has returned: _process_page_unified builds its result
\* and load_data counts the page
FinishPage ==
    /\ b_pc = "page"
    /\ pc = "done"
    /\ documents_processed' = documents_processed + 1
    /\ processed_pages' = processed_pages + 1
    /\ IF result.success
       THEN /\ created_checklists' = created_checklists + 1
            /\ created_testcases' = created_testcases + result.testcases_created
            /\ existing_checklists' = existing_checklists \cup {pages[page_i + 1].id}
            /\ UNCHANGED skipped_checklists
       ELSE /\ skipped_checklists' = skipped_checklists + 1
            /\ UNCHANGED <<created_checklists, created_testcases, existing_checklists>>
    /\ unified_result' = IF result.success
                          THEN [NoUnifiedResult EXCEPT !.mysql_success = TRUE,
                                                       !.testcases_created = result.testcases_created]
                          ELSE [NoUnifiedResult EXCEPT !.mysql_reason = result.reason]
    /\ page_i' = page_i + 1
    /\ b_pc' = "loop"
    /\ UNCHANGED <<pages, limit, batch_result>>
    /\ UNCHANGED <<page_vars, analyze_vars, frames, aux_vars>>

\* load_data: the loop has gone through the list
LoopEnd ==
    /\ b_pc = "loop"
    /\ page_i = Len(pages)
    /\ b_pc' = "after"
    /\ UNCHANGED <<pages, page_i, limit, progress_vars, batch_result, unified_result>>
    /\ UNCHANGED <<page_vars, analyze_vars, frames, aux_vars>>

\* load_data: the job is updated and the result returned
BatchReturn ==
    /\ b_pc = "after"
    /\ batch_result' = [success |-> TRUE,
                        documents_processed |-> documents_processed,
                        checklists_created |-> created_checklists,
                        testcases_created |-> created_testcases,
                        skipped_checklists |-> skipped_checklists]
    /\ b_pc' = "returned"
    /\ UNCHANGED <<pages, page_i, limit, progress_vars, unified_result>>
    /\ UNCHANGED <<page_vars, analyze_vars, frames, aux_vars>>

NextBatch ==
    \/ LimitBreak
    \/ PageMalformed
    \/ PageExists
    \/ StartPage
    \/ NoContent
    \/ ProcessPage
    \/ FinishPage
    \/ LoopEnd
    \/ BatchReturn

SpecBatch == InitBatch /\ [][NextBatch]_vars

\* load_data runs in one task and every call it awaits returns: a step that
\* is enabled is taken
SpecBatchFair == SpecBatch /\ WF_vars(NextBatch)

(***************************************************************************)
(* Calls in progress at once on one parser and one loader: each task       *)
(* parses the table of its page with _parse_table and hands the result to  *)
(* _remove_duplicates. The locals of a call belong to its task; the tasks  *)
(* are interleaved between the iterations of the two loops. Call Alone is  *)
(* made first and returns before the tasks start; task 1 has its table.    *)
(***************************************************************************)
Alone == 0

Tasks == {1, 2}

TaskRows == {TcLogin, SecCustom, DivRoute}

TaskTables == SeqsUpTo(TaskRows, MaxTaskRows)

\* the locals of _parse_table and _remove_duplicates at the start of a call
Frame(table) ==
    [pc |-> "rows", table |-> table, i |-> 0,
     current_section |-> "GENERAL", current_functionality |-> None,
     testcases |-> <<>>,
     dedup_i |-> 0, unique_testcases |-> <<>>, seen_hashes |-> {}]

\* _parse_table: one iteration of the row loop on the locals f
parse_row_step(f) ==
    LET cells == f.table[f.i + 1] IN
    IF RowFacts[cells].section_header
    THEN [f EXCEPT !.i = @ + 1,
                   !.current_section = RowFacts[cells].section_info.section,
                   !.current_functionality = RowFacts[cells].section_info.functionality]
    ELSE IF RowFacts[cells].subsection_header
    THEN [f EXCEPT !.i = @ + 1,
                   !.current_functionality =
                       IF Truthy(RowFacts[cells].divider_functionality)
                       THEN RowFacts[cells].divider_functionality
                       ELSE @]
    ELSE [f EXCEPT !.i = @ + 1,
                   !.testcases = @ \o ParsedRow[<<cells, standard_7_col,
                                                 f.current_section, f.current_functionality>>]]

\* _remove_duplicates: one iteration of the loop on the locals f
remove_duplicates_step(f) ==
    LET testcase == f.testcases[f.dedup_i + 1] IN
    IF too_short(testcase)
    THEN [f EXCEPT !.dedup_i = @ + 1]
    ELSE IF testcase_hash(testcase) \notin f.seen_hashes
    THEN [f EXCEPT !.dedup_i = @ + 1,
                   !.seen_hashes = @ \cup {testcase_hash(testcase)},
                   !.unique_testcases = Append(@, testcase)]
    ELSE [f EXCEPT !.dedup_i = @ + 1,
                   !.unique_testcases = replace_if_better(@, testcase)]

InitTasks ==
    /\ pc = "idle"
    /\ PageReset
    /\ AnalyzeIdle
    /\ BatchIdle
    /\ AuxIdle
    /\ \E table1, table2 \in TaskTables :
           frames = [t \in {Alone} \cup Tasks |->
                        IF t = Alone THEN Frame(table1)
                        ELSE IF t = 1 THEN [Frame(table1) EXCEPT !.pc = "start"]
                        ELSE [Frame(table2) EXCEPT !.pc = "start"]]

\* a task calls _parse_table once call Alone has returned
TaskStart(t) ==
    /\ t \in Tasks
    /\ frames[Alone].pc = "done"
    /\ frames[t].pc = "start"
    /\ frames' = [frames EXCEPT ![t].pc = "rows"]
    /\ UNCHANGED <<page_vars, analyze_vars, batch_vars, aux_vars>>

\* TaskRow with current_section and current_functionality kept on the parser
\* instance instead of in locals: the running calls of the other tasks see
\* the values this row sets
TaskRow_shared(t) ==
    /\ frames[t].pc = "rows"
    /\ frames[t].i < Len(frames[t].table)
    /\ frames' = [u \in DOMAIN frames |->
                    IF u = t THEN parse_row_step(frames[t])
                    ELSE IF frames[u].pc = "rows"
                    THEN [frames[u] EXCEPT
                            !.current_section = parse_row_step(frames[t]).current_section,
                            !.current_functionality = parse_row_step(frames[t]).current_functionality]
                    ELSE frames[u]]
    /\ UNCHANGED <<page_vars, analyze_vars, batch_vars, aux_vars>>

\* call t: _parse_table handles its next row
TaskRow(t) ==
    /\ frames[t].pc = "rows"
    /\ frames[t].i < Len(frames[t].table)
    /\ frames' = [frames EXCEPT ![t] = parse_row_step(@)]
    /\ UNCHANGED <<page_vars, analyze_vars, batch_vars, aux_vars>>

\* call t: _parse_table returns and _remove_duplicates is called on its result
TaskParseReturn(t) ==
    /\ frames[t].pc = "rows"
    /\ frames[t].i = Len(frames[t].table)
    /\ frames' = [frames EXCEPT ![t].pc = "dedup"]
    /\ UNCHANGED <<page_vars, analyze_vars, batch_vars, aux_vars>>

\* call t: _remove_duplicates handles its next testcase
TaskDedup(t) ==
    /\ frames[t].pc = "dedup"
    /\ frames[t].dedup_i < Len(frames[t].testcases)
    /\ frames' = [frames EXCEPT ![t] = remove_duplicates_step(@)]
    /\ UNCHANGED <<page_vars, analyze_vars, batch_vars, aux_vars>>

\* call t: _remove_duplicates returns
TaskDedupReturn(t) ==
    /\ frames[t].pc = "dedup"
    /\ frames[t].dedup_i = Len(frames[t].testcases)
    /\ frames' = [frames EXCEPT ![t].pc = "done"]
    /\ UNCHANGED <<page_vars, analyze_vars, batch_vars, aux_vars>>

NextTasks ==
    \E t \in {Alone} \cup Tasks :
        \/ TaskStart(t)
        \/ TaskRow(t)
        \/ TaskParseReturn(t)
        \/ TaskDedup(t)
        \/ TaskDedupReturn(t)

SpecTasks == InitTasks /\ [][NextTasks]_vars

(***************************************************************************)
(* EnhancedConfluenceTableParser: schema detection                         *)
(***************************************************************************)
\* stands for the numero sign of the header of the number column
NumeroSign == "#"

standard_8_col ==
    [columns |-> 8,
     column_mapping |-> [number |-> 0, step |-> 1, expected |-> 2, screenshot |-> 3,
                         priority |-> 4, config |-> 5, qa_coverage |-> 6, extra |-> 7]]

standard_7_headers ==
    <<NumeroSign, "STEP", "EXPECTED RESULT", "SCREENSHOT", "PRIORITY", "CONFIG",
      "QA AUTO COVERAGE">>

\* self.table_schemas, in insertion order: the headers and the template
table_schemas ==
    << [headers |-> standard_7_headers, schema |-> standard_7_col],
       [headers |-> standard_7_headers \o <<"EXTRA">>, schema |-> standard_8_col],
       [headers |-> <<NumeroSign, "STEP", "EXPECTED RESULT", "PRIORITY">>,
        schema |-> simple_4_col],
       [headers |-> <<"STEP", "EXPECTED RESULT", "PRIORITY">>, schema |-> simple_3_col] >>

\* the keyword lists of the elif chain of _create_adaptive_schema (ASCII keywords)
adaptive_keywords ==
    << <<"number", <<NumeroSign, "NUMBER", "NUM">> >>,
       <<"step", <<"STEP">> >>,
       <<"expected", <<"EXPECTED", "RESULT">> >>,
       <<"screenshot", <<"SCREENSHOT", "SCREEN">> >>,
       <<"priority", <<"PRIORITY", "PRIOR">> >>,
       <<"config", <<"CONFIG", "CONFIGURATION">> >>,
       <<"qa_coverage", <<"QA", "COVERAGE">> >> >>

\* str.split(): the words of s between runs of whitespace
RECURSIVE split_loop(_, _, _)
split_loop(s, word, words) ==
    IF s = "" THEN (IF word = "" THEN words ELSE Append(words, word))
    ELSE IF IsSpace(Chr(s, 1))
         THEN split_loop(SubSeq(s, 2, Len(s)), "",
                         IF word = "" THEN words ELSE Append(words, word))
         ELSE split_loop(SubSeq(s, 2, Len(s)), word \o Chr(s, 1), words)

split(s) == split_loop(s, "", <<>>)

\* the condition of the loop of _calculate_header_similarity
header_matches(h1, h2) ==
    \/ h1 = h2
    \/ ContainsAny(h1, split(h2))
    \/ ContainsAny(h2, split(h1))

\* _calculate_header_similarity: the quotient as <<numerator, denominator>>
calculate_header_similarity(headers1, headers2) ==
    IF Len(headers1) # Len(headers2) THEN <<0, 1>>
    ELSE <<Cardinality({i \in 1..Len(headers1) : header_matches(headers1[i], headers2[i])}),
           Len(headers1)>>

\* a > b for two quotients with positive denominators
Greater(a, b) == a[1] * b[2] > b[1] * a[2]

\* a < 0.5 for a quotient with a positive denominator
BelowHalf(a) == 2 * a[1] < a[2]

\* the field the elif chain of _create_adaptive_schema gives a header, or None
adaptive_field(header) ==
    LET k == FirstFamily(adaptive_keywords, upper(header), "")
    IN IF k = 0 THEN None ELSE adaptive_keywords[k][1]

\* _create_adaptive_schema: a later header of a field overwrites an earlier one
create_adaptive_schema(hs) ==
    LET fields == {adaptive_field(hs[i]) : i \in 1..Len(hs)} \ {None}
        last(f) == CHOOSE i \in 1..Len(hs) :
                       /\ adaptive_field(hs[i]) = f
                       /\ \A j \in (i + 1)..Len(hs) : adaptive_field(hs[j]) # f
    IN [columns |-> Len(hs),
        column_mapping |-> [f \in fields |-> last(f) - 1]]

\* the header rows schema detection is run on
HeaderTexts == {"Step", " Expected result ", "Priority", "Notes", "No"}

Th(text) == Cell(text, NoColspan)

Standard7Row ==
    <<Th("#"), Th("Step"), Th("Expected Result"), Th("Screenshot"), Th("Priority"),
      Th("Config"), Th("QA Auto Coverage")>>

\* seven headers of which three are those of the template
Loose7Row ==
    <<Th("Id"), Th("Action"), Th("Expected"), Th("Image"), Th("Priority"),
      Th("Config"), Th("Owner")>>

\* seven headers of which four are those of the template
Half7Row ==
    <<Th("#"), Th("Action"), Th("Expected"), Th("Image"), Th("Priority"),
      Th("Config"), Th("Owner")>>

Standard8Row == Standard7Row \o <<Th("Extra")>>

\* four headers of which two are those of the template
Half4Row == <<Th("Id"), Th("Step"), Th("Outcome"), Th("Priority")>>

\* four headers of which one is that of the template
Loose4Row == <<Th("Id"), Th("Action"), Th("Outcome"), Th("Priority")>>

\* five headers: no template has five columns
Five5Row == <<Th("Number"), Th("Step"), Th("Result"), Th("Expected result"), Th("QA")>>

HeaderRows ==
    {[i \in 1..Len(r) |-> Th(r[i])] : r \in SeqsUpTo(HeaderTexts, MaxHeaders)}
        \cup {Standard7Row, Loose7Row, Half7Row, Standard8Row, Half4Row, Loose4Row, Five5Row}

InitSchema ==
    /\ pc = "idle"
    /\ PageReset
    /\ AnalyzeIdle
    /\ BatchIdle
    /\ TasksIdle
    /\ ToolsIdle
    /\ d_pc = "call"
    /\ header_row \in HeaderRows
    /\ headers = <<>>
    /\ schema_i = 0
    /\ best_match = 0
    /\ best_score = <<0, 1>>
    /\ detected = None

\* _detect_table_schema: the texts of the header cells, stripped and upper-cased
DetectStart ==
    /\ d_pc = "call"
    /\ d_pc' = "loop"
    /\ headers' = [i \in 1..Len(header_row) |-> upper(get_text(header_row[i]))]
    /\ UNCHANGED <<header_row, schema_i, best_match, best_score, detected>>
    /\ UNCHANGED <<page_vars, analyze_vars, batch_vars, frames, tool_vars>>

\* _detect_table_schema: one iteration of the loop over self.table_schemas
DetectTemplate ==
    /\ d_pc = "loop"
    /\ schema_i < Len(table_schemas)
    /\ schema_i' = schema_i + 1
    /\ LET template == table_schemas[schema_i + 1]
           score == calculate_header_similarity(headers, template.headers)
       IN IF template.schema.columns = Len(headers) /\ Greater(score, best_score)
          THEN best_score' = score /\ best_match' = schema_i + 1
          ELSE UNCHANGED <<best_score, best_match>>
    /\ UNCHANGED <<d_pc, header_row, headers, detected>>
    /\ UNCHANGED <<page_vars, analyze_vars, batch_vars, frames, tool_vars>>

\* DetectReturn falling back to the adaptive schema at a similarity of 0.5 too
DetectReturn_strict ==
    /\ d_pc = "loop"
    /\ schema_i = Len(table_schemas)
    /\ d_pc' = "done"
    /\ detected' = IF best_match = 0 \/ ~Greater(best_score, <<1, 2>>)
                   THEN create_adaptive_schema(headers)
                   ELSE table_schemas[best_match].schema
    /\ UNCHANGED <<header_row, headers, schema_i, best_match, best_score>>
    /\ UNCHANGED <<page_vars, analyze_vars, batch_vars, frames, tool_vars>>

\* _detect_table_schema: the fallback to the adaptive schema and the return
DetectReturn ==
    /\ d_pc = "loop"
    /\ schema_i = Len(table_schemas)
    /\ d_pc' = "done"
    /\ detected' = IF best_match = 0 \/ BelowHalf(best_score)
                   THEN create_adaptive_schema(headers)
                   ELSE table_schemas[best_match].schema
    /\ UNCHANGED <<header_row, headers, schema_i, best_match, best_score>>
    /\ UNCHANGED <<page_vars, analyze_vars, batch_vars, frames, tool_vars>>

NextSchema == DetectStart \/ DetectTemplate \/ DetectReturn

SpecSchema == InitSchema /\ [][NextSchema]_vars

(***************************************************************************)
(* MCP tool functions: qa_search_documents, qa_search_testcases,           *)
(* qa_get_testcases and qa_health. A call reads its arguments from         *)
(* tool_call, reaches its collaborators in the order of the code (each     *)
(* reached collaborator and the exception it raised, if any, is appended   *)
(* to touched) and leaves the dictionary it returns in response. Numbers   *)
(* between 0 and 1 are written in hundredths (min_similarity) and in       *)
(* hundred-thousandths (the similarity of a search hit).                   *)
(***************************************************************************)
\* the messages of the exceptions the collaborators raise
EmbedderError == "OPENAI_API_KEY is not set"

VectorError == "Qdrant is unreachable"

RepoError == "Connection failed"

\* one collaborator reached: what was called and the message of the exception
\* it raised, or None
Reached(name, raised) == [name |-> name, raised |-> raised]

\* a stored testcase as the repository returns it
StoredTestcase ==
    [id |-> 1, step |-> "Click the login button", priority |-> "HIGH", test_group |-> None]

\* what qa_repo.semantic_search_testcases returns: hits, or an exception
SemanticOutcomes ==
    {[raised |-> None, value |-> <<>>],
     [raised |-> None, value |-> <<[testcase |-> StoredTestcase, similarity |-> 85004]>>],
     [raised |-> RepoError, value |-> <<>>]}

\* what qa_repo.get_testcases returns: (testcases, total), or an exception
GetOutcomes ==
    {[raised |-> None, value |-> <<>>, total |-> 0],
     [raised |-> None, value |-> <<StoredTestcase>>, total |-> 7],
     [raised |-> RepoError, value |-> <<>>, total |-> 0]}

\* the embedder and the vector repository of one document search: whether the
\* constructors raise, what embed_text returns (a vector, None when none is
\* set, an empty list) or raises, and what search returns or raises
DocumentWorlds ==
    [embedder_init : {None, EmbedderError},
     vector_init : {None, VectorError},
     embedding : {[raised |-> None, none |-> FALSE, value |-> <<12, 7>>],
                  [raised |-> None, none |-> TRUE, value |-> <<>>],
                  [raised |-> None, none |-> FALSE, value |-> <<>>],
                  [raised |-> EmbedderError, none |-> TRUE, value |-> <<>>]},
     search : {[raised |-> None, value |-> <<>>],
               [raised |-> None, value |-> <<[score |-> 85, chunk |-> "Login page"]>>],
               [raised |-> None, value |-> <<[score |-> 60, url |-> "/pages/7"]>>],
               [raised |-> VectorError, value |-> <<>>]}]

\* the session and the statistics of one health check: the message of the
\* exception get_session, execute or get_qa_statistics raises, or None
HealthWorlds ==
    [get_session : {None, RepoError},
     execute : {None, "SELECT failed"},
     statistics : {None, "statistics query failed"}]

\* what qa_repo.get_qa_statistics returns
Statistics == [sections |-> 2, checklists |-> 3, testcases |-> 7]

\* the arguments of the calls
QueryPool == {"", "ab", "  ab  ", "abc", " login "}

LimitPool == {0, 1, 50, 51, 500, 501}

OffsetPool == {0 - 1, 0, 5}

SimilarityPool == {0 - 1, 0, 50, 100, 150}

GroupPool == {None, "", "GENERAL", "CUSTOM", "INVALID", "general"}

PriorityPool == {None, "", "LOWEST", "HIGH", "INVALID"}

\* the arguments of a call with the defaults of the signatures
DefaultCall(tool) ==
    [tool |-> tool, query |-> "login", limit |-> IF tool = "qa_search_testcases" THEN 10 ELSE 100,
     offset |-> 0, min_similarity |-> 50, test_group |-> None, priority |-> None,
     return_chunks |-> TRUE]

ToolCalls ==
    {[DefaultCall("qa_search_testcases") EXCEPT
          !.query = q, !.limit = l, !.min_similarity = m, !.test_group = g, !.priority = p] :
          q \in QueryPool, l \in LimitPool, m \in SimilarityPool, g \in GroupPool,
          p \in PriorityPool}
    \cup {[DefaultCall("qa_get_testcases") EXCEPT
               !.limit = l, !.offset = o, !.test_group = g, !.priority = p] :
               l \in LimitPool, o \in OffsetPool, g \in GroupPool, p \in PriorityPool}
    \cup {[DefaultCall("qa_search_documents") EXCEPT !.query = q, !.return_chunks = c] :
               q \in {"", "login"}, c \in BOOLEAN}
    \cup {DefaultCall("qa_health")}

\* {"success": False, "error": error}
Failure(error) == [success |-> FALSE, error |-> error]

\* the failure dictionary of qa_search_documents
DocumentFailure(error, query) ==
    [success |-> FALSE, error |-> error, query |-> query, results |-> <<>>, count |-> 0]

\* the marker of a call that ended by raising instead of returning
Raises(error) == [raises |-> error]

\* enum.value if enum else None
value_or_none(v) == IF Truthy(v) THEN v ELSE None

\* round(similarity, 4): hundred-thousandths to ten-thousandths, ties to even
round4(x) ==
    LET whole == x \div 10
        rest == x % 10
    IN IF rest < 5 THEN whole
       ELSE IF rest > 5 THEN whole + 1
       ELSE IF whole % 2 = 0 THEN whole ELSE whole + 1

\* result.get(key, default)
get_or(d, key, default) == IF key \in DOMAIN d THEN d[key] ELSE default

\* qa_search_documents: one formatted result
format_document(hit, return_chunks) ==
    LET formatted == [score |-> get_or(hit, "score", 0), feature |-> get_or(hit, "feature", ""),
                      document |-> get_or(hit, "document", ""), space |-> get_or(hit, "space", ""),
                      url |-> get_or(hit, "url", "")]
    IN IF return_chunks /\ "chunk" \in DOMAIN hit
       THEN formatted @@ [chunk |-> hit.chunk]
       ELSE formatted

\* qa_search_testcases: the first validation that fails, or None
search_testcases_error(call) ==
    IF ~Truthy(call.query) \/ Len(strip(call.query)) < 3
    THEN "query must be at least 3 characters long"
    ELSE IF call.limit < 1 \/ call.limit > 50
    THEN "limit must be between 1 and 50"
    ELSE IF call.min_similarity < 0 \/ call.min_similarity > 100
    THEN "min_similarity must be between 0.0 and 1.0"
    ELSE IF Truthy(call.test_group) /\ call.test_group \notin {"GENERAL", "CUSTOM"}
    THEN "test_group must be GENERAL or CUSTOM"
    ELSE IF Truthy(call.priority)
            /\ call.priority \notin {"LOWEST", "LOW", "MEDIUM", "HIGH", "HIGHEST", "CRITICAL"}
    THEN "priority must be one of: LOWEST, LOW, MEDIUM, HIGH, HIGHEST, CRITICAL"
    ELSE None

\* qa_get_testcases: the first validation that fails, or None
get_testcases_error(call) ==
    IF call.limit < 1 \/ call.limit > 500
    THEN "limit must be between 1 and 500"
    ELSE IF call.offset < 0
    THEN "offset must be >= 0"
    ELSE IF Truthy(call.test_group) /\ call.test_group \notin {"GENERAL", "CUSTOM"}
    THEN "test_group must be GENERAL or CUSTOM"
    ELSE IF Truthy(call.priority) /\ call.priority \notin {"LOW", "MEDIUM", "HIGH", "CRITICAL"}
    THEN "priority must be LOW, MEDIUM, HIGH, or CRITICAL"
    ELSE None

\* qa_search_testcases: one formatted result
format_hit(hit) ==
    [id |-> hit.testcase.id, step |-> hit.testcase.step,
     priority |-> value_or_none(hit.testcase.priority),
     test_group |-> value_or_none(hit.testcase.test_group),
     similarity |-> round4(hit.similarity)]

\* qa_get_testcases: one formatted testcase
format_testcase(testcase) ==
    [id |-> testcase.id, step |-> testcase.step,
     priority |-> value_or_none(testcase.priority),
     test_group |-> value_or_none(testcase.test_group)]

InitTools ==
    /\ pc = "idle"
    /\ PageReset
    /\ AnalyzeIdle
    /\ BatchIdle
    /\ TasksIdle
    /\ DetectIdle
    /\ t_pc = "call"
    /\ tool_call \in ToolCalls
    /\ touched = <<>>
    /\ response = None

\* not (not query_embedding)
truthy_embedding(e) == ~e.none /\ e.value # <<>>

\* the collaborators a document search reaches in the world w, in order, up to
\* the first that raises or to the check of the embedding
document_trace(w) ==
    LET a == <<Reached("OpenAIEmbedder", w.embedder_init)>>
        b == Append(a, Reached("VectorDBRepository", w.vector_init))
        c == Append(b, Reached("embedder.embed_text", w.embedding.raised))
        d == Append(c, Reached("vector_repo.search", w.search.raised))
    IN IF w.embedder_init # None THEN a
       ELSE IF w.vector_init # None THEN b
       ELSE IF w.embedding.raised # None \/ ~truthy_embedding(w.embedding) THEN c
       ELSE d

\* the exception that ends the try block of a call with the trace t, or None
raised_in(t) == t[Len(t)].raised

\* qa_search_documents
qa_search_documents ==
    /\ t_pc = "call"
    /\ tool_call.tool = "qa_search_documents"
    /\ t_pc' = "done"
    /\ \E w \in DocumentWorlds :
           /\ touched' = document_trace(w)
           /\ response' =
                  IF raised_in(document_trace(w)) # None
                  THEN DocumentFailure(raised_in(document_trace(w)), tool_call.query)
                  ELSE IF Len(document_trace(w)) = 3
                  THEN DocumentFailure("Failed to generate query embedding", tool_call.query)
                  ELSE [success |-> TRUE, query |-> tool_call.query,
                        results |-> [i \in 1..Len(w.search.value) |->
                                        format_document(w.search.value[i], tool_call.return_chunks)],
                        count |-> Len(w.search.value), took_ms |-> 1,
                        search_type |-> "vector_documents"]
    /\ UNCHANGED tool_call
    /\ UNCHANGED <<page_vars, analyze_vars, batch_vars, frames, detect_vars>>

\* qa_search_testcases without the try block around the repository call
qa_search_testcases_unguarded ==
    /\ t_pc = "call"
    /\ tool_call.tool = "qa_search_testcases"
    /\ t_pc' = "done"
    /\ IF search_testcases_error(tool_call) # None
       THEN /\ response' = Failure(search_testcases_error(tool_call))
            /\ touched' = touched
       ELSE \E w \in SemanticOutcomes :
                /\ touched' = Append(touched, Reached("qa_repo.semantic_search_testcases", w.raised))
                /\ response' =
                       IF w.raised # None THEN Raises(w.raised)
                       ELSE [success |-> TRUE, query |-> tool_call.query,
                             results |-> [i \in 1..Len(w.value) |-> format_hit(w.value[i])],
                             count |-> Len(w.value),
                             min_similarity |-> tool_call.min_similarity,
                             search_type |-> "semantic"]
    /\ UNCHANGED tool_call
    /\ UNCHANGED <<page_vars, analyze_vars, batch_vars, frames, detect_vars>>

\* qa_search_testcases validating after the repository search
qa_search_testcases_search_first ==
    /\ t_pc = "call"
    /\ tool_call.tool = "qa_search_testcases"
    /\ t_pc' = "done"
    /\ \E w \in SemanticOutcomes :
           /\ touched' = Append(touched, Reached("qa_repo.semantic_search_testcases", w.raised))
           /\ response' =
                  IF w.raised # None THEN Failure(w.raised)
                  ELSE IF search_testcases_error(tool_call) # None
                  THEN Failure(search_testcases_error(tool_call))
                  ELSE [success |-> TRUE, query |-> tool_call.query,
                        results |-> [i \in 1..Len(w.value) |-> format_hit(w.value[i])],
                        count |-> Len(w.value),
                        min_similarity |-> tool_call.min_similarity,
                        search_type |-> "semantic"]
    /\ UNCHANGED tool_call
    /\ UNCHANGED <<page_vars, analyze_vars, batch_vars, frames, detect_vars>>

\* qa_search_testcases
qa_search_testcases ==
    /\ t_pc = "call"
    /\ tool_call.tool = "qa_search_testcases"
    /\ t_pc' = "done"
    /\ IF search_testcases_error(tool_call) # None
       THEN /\ response' = Failure(search_testcases_error(tool_call))
            /\ touched' = touched
       ELSE \E w \in SemanticOutcomes :
                /\ touched' = Append(touched, Reached("qa_repo.semantic_search_testcases", w.raised))
                /\ response' =
                       IF w.raised # None THEN Failure(w.raised)
                       ELSE [success |-> TRUE, query |-> tool_call.query,
                             results |-> [i \in 1..Len(w.value) |-> format_hit(w.value[i])],
                             count |-> Len(w.value),
                             min_similarity |-> tool_call.min_similarity,
                             search_type |-> "semantic"]
    /\ UNCHANGED tool_call
    /\ UNCHANGED <<page_vars, analyze_vars, batch_vars, frames, detect_vars>>

\* qa_get_testcases
qa_get_testcases ==
    /\ t_pc = "call"
    /\ tool_call.tool = "qa_get_testcases"
    /\ t_pc' = "done"
    /\ IF get_testcases_error(tool_call) # None
       THEN /\ response' = Failure(get_testcases_error(tool_call))
            /\ touched' = touched
       ELSE \E w \in GetOutcomes :
                /\ touched' = Append(touched, Reached("qa_repo.get_testcases", w.raised))
                /\ response' =
                       IF w.raised # None THEN Failure(w.raised)
                       ELSE [success |-> TRUE,
                             testcases |-> [i \in 1..Len(w.value) |-> format_testcase(w.value[i])],
                             total |-> w.total, limit |-> tool_call.limit,
                             offset |-> tool_call.offset,
                             filters |-> [test_group |-> tool_call.test_group,
                                          priority |-> tool_call.priority]]
    /\ UNCHANGED tool_call
    /\ UNCHANGED <<page_vars, analyze_vars, batch_vars, frames, detect_vars>>

\* the collaborators a health check reaches in the world w, in order
health_trace(w) ==
    LET session == <<Reached("qa_repo.get_session", w.get_session)>>
        mysql == IF w.get_session # None THEN session
                 ELSE Append(session, Reached("session.execute", w.execute))
    IN Append(mysql, Reached("qa_repo.get_qa_statistics", w.statistics))

\* qa_health: each of the two checks has a try block of its own
qa_health ==
    /\ t_pc = "call"
    /\ tool_call.tool = "qa_health"
    /\ t_pc' = "done"
    /\ \E w \in HealthWorlds :
           LET mysql_error == IF w.get_session # None THEN w.get_session ELSE w.execute
               mysql == IF mysql_error # None
                        THEN [status |-> "unhealthy", message |-> mysql_error]
                        ELSE [status |-> "healthy", message |-> "Connection OK"]
               health_status == [success |-> mysql_error = None, ok |-> TRUE]
           IN /\ touched' = health_trace(w)
              /\ response' =
                     IF w.statistics # None
                     THEN health_status @@
                          [services |-> [mysql |-> mysql,
                                         statistics |-> [status |-> "unhealthy",
                                                         message |-> w.statistics]]]
                     ELSE health_status @@
                          [services |-> [mysql |-> mysql], statistics |-> Statistics]
    /\ UNCHANGED tool_call
    /\ UNCHANGED <<page_vars, analyze_vars, batch_vars, frames, detect_vars>>

NextTools == qa_search_documents \/ qa_search_testcases \/ qa_get_testcases \/ qa_health

SpecTools == InitTools /\ [][NextTools]_vars

TypeOK ==
    /\ pc \in {"idle", "html", "table", "ai", "merge", "dedup", "persist", "done"}
    /\ current_section \in {"GENERAL", "CUSTOM"}
    /\ dedup_i \in 0..Len(all_testcases)

(***************************************************************************)
(* Properties                                                              *)
(***************************************************************************)
\* the elements of a sequence
Range(q) == {q[i] : i \in 1..Len(q)}

\* the testcases parse_table can emit on rows of RowPool
ParsedTestcases == UNION {Range(ParsedRow[a]) : a \in DOMAIN ParsedRow}

\* testcases with a step of at least 10 characters after trimming
LongStep ==
    {t \in ParsedTestcases \cup LlmPool \cup BigLlmPool \cup Range(BigParsed) :
        t.step # None /\ Len(strip(t.step)) >= 10}

\* this step of _parse_table appends a testcase
Emits == pc = "table" /\ Len(table_testcases') = Len(table_testcases) + 1

\* the testcase this step appends
Emitted == table_testcases'[Len(table_testcases')]

\* C1: every testcase in the output of the HTML parser and in the output of
\* _remove_duplicates has a step whose trimmed length is at least 10
C1_StepValidity ==
    /\ Range(table_testcases) \subseteq LongStep
    /\ Range(testcases) \subseteq LongStep
    /\ Range(html_testcases) \subseteq LongStep
    /\ Range(unique_testcases) \subseteq LongStep

\* C1 witness: the parser returned testcases, the concatenated list held a
\* testcase with a short step, and the dedup pass has kept two testcases
C1_Witness ==
    /\ pc = "persist"
    /\ html_testcases # <<>>
    /\ \E i \in 1..Len(all_testcases) : all_testcases[i] \notin LongStep
    /\ Len(unique_testcases) >= 2

\* C2: every testcase of the merged output has test_group GENERAL or CUSTOM
C2_TestGroupTotal ==
    \A i \in 1..Len(unique_testcases) : unique_testcases[i].test_group \in {"GENERAL", "CUSTOM"}

\* C2 failing input: the model reply holds a long enough testcase without test_group
C2_FailingInput ==
    \E i \in 1..Len(ai_testcases) :
        ai_testcases[i] \in LongStep /\ ai_testcases[i].test_group = None

(***************************************************************************)
(* Row shapes as the specification words them                              *)
(***************************************************************************)
\* the text is a section name
SectionText(text) ==
    \/ Contains(upper(text), "GENERAL")
    \/ Contains(upper(text), "CUSTOM")
    \/ Contains(upper(text), "SECTION")

\* cells with a colspan attribute and text
SpanCells(cells) == {c \in 1..Len(cells) : cells[c].colspan # NoColspan /\ strip(cells[c].text) # ""}

\* only the first cell of the row has text
FirstCellOnly(cells) ==
    /\ strip(cells[1].text) # ""
    /\ \A c \in 2..Len(cells) : strip(cells[c].text) = ""

\* the text a divider-shaped row carries
ShapeText(cells) ==
    IF SpanCells(cells) # {}
    THEN strip(cells[CHOOSE c \in SpanCells(cells) : \A d \in SpanCells(cells) : c <= d].text)
    ELSE strip(cells[1].text)

\* SECTION_HEADER: a cell spanning three columns or more holds a section name
SectionShape(cells) ==
    \E c \in 1..Len(cells) : cells[c].colspan >= 3 /\ SectionText(strip(cells[c].text))

\* DIVIDER: a spanning cell with text, or only the first cell has text, and
\* the text is no section name
DividerShape(cells) ==
    /\ ~SectionShape(cells)
    /\ SpanCells(cells) # {} \/ FirstCellOnly(cells)
    /\ ~SectionText(ShapeText(cells))

\* the text holds one of the divider keywords of the parser
HasDividerKeyword(text) ==
    \E k \in {"route", "addfirstfavorite", "openprofile", "addlike", "sendsecondmessage",
              "windows", "macos"} : Contains(lower(text), k)

\* the text holds one of the subsection keywords of the parser
HasSubsectionKeyword(text) ==
    \E k \in {"pre condition", "steps", "precondition"} : Contains(lower(text), k)

\* a divider-shaped row the parser acts on: a cell spanning three columns or
\* more with a subsection keyword, or a row of two cells or more that has a
\* spanning cell with a divider keyword or only its first cell filled, with a
\* divider keyword
KeywordDividerShape(cells) ==
    /\ ~SectionShape(cells)
    /\ \/ \E c \in SpanCells(cells) :
              cells[c].colspan >= 3 /\ HasSubsectionKeyword(strip(cells[c].text))
       \/ /\ Len(cells) >= 2
          /\ \/ \E c \in SpanCells(cells) : HasDividerKeyword(strip(cells[c].text))
             \/ FirstCellOnly(cells) /\ HasDividerKeyword(strip(cells[1].text))

\* the section a section-header row sets: the last cell that reads GENERAL or
\* CUSTOM, GENERAL when no cell does
SectionSet(cells) ==
    LET exact == {c \in 1..Len(cells) : upper(strip(cells[c].text)) \in {"GENERAL", "CUSTOM"}}
    IN IF exact = {} THEN "GENERAL"
       ELSE upper(strip(cells[CHOOSE c \in exact : \A d \in exact : d <= c].text))

\* the row names GENERAL or CUSTOM in a cell spanning three columns or more
MarkerShape(cells) ==
    \E c \in 1..Len(cells) :
        cells[c].colspan >= 3 /\ upper(strip(cells[c].text)) \in {"GENERAL", "CUSTOM"}

\* the label of the mapping of the parser for a divider text: the value of
\* the first key that occurs in the text, the text itself when none does
MappedLabel(text) ==
    IF Contains(lower(text), "route") THEN "Route"
    ELSE IF Contains(lower(text), "addfirstfavorite") THEN "AddFirstFavorite"
    ELSE IF Contains(lower(text), "openprofile") THEN "OpenProfile"
    ELSE IF Contains(lower(text), "addlike") THEN "AddLike"
    ELSE IF Contains(lower(text), "sendsecondmessage") THEN "SendSecondMessage"
    ELSE IF Contains(lower(text), "windows") THEN "Podpiska - Windows"
    ELSE IF Contains(lower(text), "macos") THEN "Podpiska - MacOS"
    ELSE text

\* these shapes on the rows of RowPool
Shape ==
    [cells \in RowPool |->
        [section |-> SectionShape(cells),
         marker |-> MarkerShape(cells),
         section_set |-> SectionSet(cells),
         divider |-> DividerShape(cells),
         keyword_divider |-> KeywordDividerShape(cells),
         text |-> ShapeText(cells),
         label |-> MappedLabel(ShapeText(cells))]]

\* position of the last row of rs that satisfies the shape test P, 0 when none does
LastRow(rs, P(_)) ==
    LET hits == {j \in 1..Len(rs) : P(rs[j])}
    IN IF hits = {} THEN 0 ELSE CHOOSE j \in hits : \A k \in hits : k <= j

IsSectionOrDivider(cells) == Shape[cells].section \/ Shape[cells].divider

IsSectionOrKeywordDivider(cells) == Shape[cells].section \/ Shape[cells].keyword_divider

IsMarker(cells) == Shape[cells].marker

IsSection(cells) == Shape[cells].section

\* this step of _parse_table reads a row
Reads == pc = "table" /\ Len(rows') = Len(rows) + 1

\* the row this step reads
RowRead == rows'[Len(rows')]

C5_LastMarkerDecides ==
    [][Emits =>
         LET j == LastRow(rows, IsMarker)
         IN Emitted.test_group = IF j = 0 THEN "GENERAL" ELSE Shape[rows[j]].section_set]_vars

\* C5 amended: an emitted testcase has the test_group set by the last
\* section-header row before it (CUSTOM when a cell of that row reads CUSTOM,
\* GENERAL otherwise), GENERAL when there was none
C5_LastSectionHeaderDecides ==
    [][Emits =>
         LET j == LastRow(rows, IsSection)
         IN Emitted.test_group = IF j = 0 THEN "GENERAL" ELSE Shape[rows[j]].section_set]_vars

\* C5 witness: section GENERAL, testcase, section CUSTOM, testcase
C5_Witness ==
    /\ pc = "table"
    /\ Len(rows) = 4
    /\ Shape[rows[1]].marker /\ Shape[rows[1]].section_set = "GENERAL"
    /\ Shape[rows[3]].marker /\ Shape[rows[3]].section_set = "CUSTOM"
    /\ Len(table_testcases) = 2
    /\ table_testcases[1].test_group = "GENERAL"
    /\ table_testcases[2].test_group = "CUSTOM"

\* the functionality the keyword families give for a step and a config: the
\* title-cased name of the first family, navigation left out, one of whose
\* keywords occurs in the lower-cased step and config joined by a space
KeywordLabel(step, config) ==
    LET text == lower(step) \o " " \o (IF config = None THEN "" ELSE lower(config))
        HasWord(words) == \E w \in words : Contains(text, w)
    IN CASE HasWord({"registration", "signup", "sign up"}) -> "Registration"
         [] HasWord({"validation", "check"}) -> "Validation"
         [] HasWord({"form", "field", "input"}) -> "Form"
         [] HasWord({"email", "mail"}) -> "Email"
         [] HasWord({"password", "pwd"}) -> "Password"
         [] HasWord({"location", "live in"}) -> "Location"
         [] HasWord({"logo", "favicon"}) -> "Logo"
         [] HasWord({"search", "find"}) -> "Search"
         [] HasWord({"profile"}) -> "Profile"
         [] HasWord({"settings"}) -> "Settings"
         [] HasWord({"notification"}) -> "Notification"
         [] HasWord({"upload"}) -> "Upload"
         [] HasWord({"download"}) -> "Download"
         [] HasWord({"authentication"}) -> "Authentication"
         [] HasWord({"authorization"}) -> "Authorization"
         [] OTHER -> None

\* KeywordLabel on the testcases the parser can emit
KeywordLabelOf == [t \in ParsedTestcases |-> KeywordLabel(t.step, t.config)]

\* C6 as stated: a testcase parsed while no label is in effect has
\* functionality null
C6_NoLabelNoFunctionality ==
    [][(Emits /\ current_functionality = None) => Emitted.functionality = None]_vars

\* C6 amended: a testcase has the label in effect as its functionality, and
\* one parsed while no label is in effect has the keyword-derived label of
\* its step and config, null only when no keyword occurs in them
C6_FunctionalityOrKeywords ==
    [][Emits => Emitted.functionality =
                    IF current_functionality # None THEN current_functionality
                    ELSE KeywordLabelOf[Emitted]]_vars

\* C6 witness: no label in effect, one testcase without and one with a keyword
C6_Witness ==
    /\ pc = "table"
    /\ current_functionality = None
    /\ Len(rows) = 2
    /\ Len(table_testcases) = 2
    /\ table_testcases[1].functionality = None
    /\ table_testcases[2].functionality = "Validation"

\* C7: parser testcases carry their position in the table as order_index, and
\* the testcases stored for the page carry ascending, distinct order_index
C7_OrderIndexAssigned ==
    /\ \A i \in 1..Len(table_testcases) : table_testcases[i].order_index = i - 1
    /\ \A i, j \in 1..Len(db_testcases) :
           i < j => db_testcases[i].order_index < db_testcases[j].order_index

\* the duplicate key of a testcase: step and expected_result in lower case,
\* whitespace collapsed, punctuation removed
Key(t) == testcase_hash(t)

\* the concatenated list is in the order the primary-source rule gives
PrimaryOrder ==
    pc \in {"dedup", "persist", "done"} =>
        all_testcases = IF Len(html_testcases) > 10
                        THEN html_testcases \o ai_testcases
                        ELSE ai_testcases \o html_testcases

\* 11 HTML and 3 LLM testcases of pairwise different content were merged
ElevenAndThree ==
    /\ pc \in {"persist", "done"}
    /\ Len(html_testcases) = 11
    /\ Len(ai_testcases) = 3
    /\ \A i, j \in 1..Len(all_testcases) : i # j => Key(all_testcases[i]) # Key(all_testcases[j])

\* the merge output is the 11 HTML testcases followed by the 3 LLM testcases
AllFourteen ==
    /\ Len(unique_testcases) = 14
    /\ SubSeq(unique_testcases, 1, 11) = html_testcases
    /\ SubSeq(unique_testcases, 12, 14) = ai_testcases

\* C8 as stated: the concatenated list is HTML then LLM testcases when the
\* parser returned more than 10, LLM then HTML otherwise; 11 HTML and 3 LLM
\* testcases of pairwise different content all survive, the HTML ones first
C8_AllFourteenSurvive ==
    /\ PrimaryOrder
    /\ ElevenAndThree => AllFourteen

\* C8: the concatenated list is HTML then LLM testcases when the parser
\* returned more than 10, LLM then HTML otherwise; 11 HTML and 3 LLM
\* testcases of pairwise different content, each with a step of at least 10
\* characters after trimming, all survive, the HTML ones first
C8_PrimarySource ==
    /\ PrimaryOrder
    /\ (ElevenAndThree /\ \A i \in 1..Len(ai_testcases) : ai_testcases[i] \in LongStep)
           => AllFourteen

\* C8 witness: 11 HTML and 3 LLM testcases of pairwise different content and
\* valid steps, merged
C8_Witness ==
    /\ pc = "persist"
    /\ ElevenAndThree
    /\ \A i \in 1..Len(ai_testcases) : ai_testcases[i] \in LongStep
    /\ Len(unique_testcases) = 14

\* this step of _remove_duplicates meets a testcase whose key is already kept
MeetsDuplicate ==
    /\ pc = "dedup"
    /\ dedup_i' = dedup_i + 1
    /\ all_testcases[dedup_i + 1] \in LongStep
    /\ \E i \in 1..Len(unique_testcases) : Key(unique_testcases[i]) = Key(all_testcases[dedup_i + 1])

\* the testcase this step meets and the kept testcase of the same key
Incoming == all_testcases[dedup_i + 1]

Kept == unique_testcases[CHOOSE i \in 1..Len(unique_testcases) :
                             Key(unique_testcases[i]) = Key(Incoming)]

\* this step puts the incoming testcase in the place of the kept one
Replaces == unique_testcases' # unique_testcases /\ Incoming \in Range(unique_testcases')

Has(v) == v # None /\ v # ""

\* C9 as stated: the incoming testcase replaces the kept one exactly when
\* (a) it has a priority and the kept one has none, (b) else it has a config
\* and the kept one has none, (c) else its step is strictly longer
C9_ReplaceCasesOnly ==
    [][MeetsDuplicate =>
         (Replaces <=>
            IF Has(Incoming.priority) /\ ~Has(Kept.priority) THEN TRUE
            ELSE IF Has(Incoming.config) /\ ~Has(Kept.config) THEN TRUE
            ELSE Len(Incoming.step) > Len(Kept.step))]_vars

\* C9 amended: the incoming testcase replaces the kept one exactly when it
\* ranks higher, comparing first having a priority, then having a config,
\* then the length of the step
C9_ReplaceWhenRanksHigher ==
    [][MeetsDuplicate =>
         (Replaces <=>
            \/ Has(Incoming.priority) /\ ~Has(Kept.priority)
            \/ /\ Has(Incoming.priority) <=> Has(Kept.priority)
               /\ \/ Has(Incoming.config) /\ ~Has(Kept.config)
                  \/ /\ Has(Incoming.config) <=> Has(Kept.config)
                     /\ Len(Incoming.step) > Len(Kept.step))]_vars

\* C9 witness: a testcase with a config and no priority has met a kept
\* testcase of its key with a priority and no config, and the kept one stayed
C9_Witness ==
    /\ pc = "persist"
    /\ \E i, j \in 1..Len(all_testcases) :
           /\ i < j
           /\ all_testcases[i] \in LongStep /\ all_testcases[j] \in LongStep
           /\ Key(all_testcases[i]) = Key(all_testcases[j])
           /\ Has(all_testcases[i].priority) /\ ~Has(all_testcases[i].config)
           /\ ~Has(all_testcases[j].priority) /\ Has(all_testcases[j].config)
           /\ all_testcases[i] \in Range(unique_testcases)
           /\ all_testcases[j] \notin Range(unique_testcases)

\* C10: after the dedup pass, the survivor of a key has a priority when some
\* testcase of that key in the input list has one
C10_PrioritySurvives ==
    pc \in {"persist", "done"} =>
        \A i \in 1..Len(all_testcases) :
            (all_testcases[i] \in LongStep /\ Has(all_testcases[i].priority)) =>
                \E k \in 1..Len(unique_testcases) :
                    /\ Key(unique_testcases[k]) = Key(all_testcases[i])
                    /\ Has(unique_testcases[k].priority)

\* C10 witness: of three testcases of one key the one with a priority stands
\* between two without, the last of them with a longer step or a config
C10_Witness ==
    /\ pc = "persist"
    /\ Len(all_testcases) = 3
    /\ \A i \in 1..3 : all_testcases[i] \in LongStep /\ Key(all_testcases[i]) = Key(all_testcases[1])
    /\ ~Has(all_testcases[1].priority)
    /\ Has(all_testcases[2].priority)
    /\ ~Has(all_testcases[3].priority)
    /\ \/ Has(all_testcases[3].config) /\ ~Has(all_testcases[2].config)
       \/ Len(all_testcases[3].step) > Len(all_testcases[2].step)
    /\ unique_testcases = <<all_testcases[2]>>

\* C11: merging a list with itself gives what merging it with the empty list
\* gives: while _remove_duplicates runs over all_testcases = X \o X, no step
\* over a testcase of the second copy changes unique_testcases (the second
\* copy adds no entry and replaces none), so the result is the one reached at
\* the end of the first copy, which is the result for X alone
C11_SecondCopyChangesNothing ==
    [][(/\ pc = "dedup"
        /\ ai_testcases = html_testcases
        /\ dedup_i >= Len(html_testcases))
           => unique_testcases' = unique_testcases]_vars

\* a list with a duplicate that replaced the kept testcase was merged with itself
C11_Witness ==
    /\ pc = "persist"
    /\ ai_testcases = html_testcases
    /\ Len(all_testcases) = 2 * Len(html_testcases)
    /\ unique_testcases # <<>>
    /\ Len(unique_testcases) < Len(html_testcases)
    /\ unique_testcases[1] # html_testcases[1]
    /\ \A i \in 1..Len(html_testcases) : ~too_short(html_testcases[i])

\* the keys of the testcases with a valid step, each once, in the order of
\* their first occurrence in tcs
RECURSIVE FirstKeys(_)
FirstKeys(tcs) ==
    IF tcs = <<>> THEN <<>>
    ELSE LET front == FirstKeys(SubSeq(tcs, 1, Len(tcs) - 1))
             last == tcs[Len(tcs)]
         IN IF too_short(last) \/ Key(last) \in Range(front)
            THEN front
            ELSE Append(front, Key(last))

\* C12: when _remove_duplicates has returned, its result holds exactly one
\* testcase for every distinct key among the inputs with a valid step, and the
\* kept testcases stand in the order of the first occurrence of their keys
\* (a replacement takes the position of the testcase it replaces)
C12_OnePerKeyInFirstOrder ==
    pc \in {"persist", "done"}
        => [i \in 1..Len(unique_testcases) |-> Key(unique_testcases[i])] = FirstKeys(all_testcases)

\* the first input was replaced by a later duplicate and another key follows it
C12_Witness ==
    /\ pc = "persist"
    /\ Len(unique_testcases) >= 2
    /\ ~too_short(all_testcases[1])
    /\ unique_testcases[1] # all_testcases[1]
    /\ Key(unique_testcases[1]) = Key(all_testcases[1])

\* a punctuation character: neither of \w nor of \s
IsPunct(c) == ~IsWord(c) /\ ~IsSpace(c)

\* text has a run of punctuation characters with whitespace or an end of the
\* text on both of its sides
HasLonePunct(text) ==
    \E i \in 1..Len(text) : \E j \in i..Len(text) :
        /\ \A k \in i..j : IsPunct(Chr(text, k))
        /\ i = 1 \/ IsSpace(Chr(text, i - 1))
        /\ j = Len(text) \/ IsSpace(Chr(text, j + 1))

\* what is left of a text when letter case, punctuation characters and the
\* amount of whitespace are disregarded
Skeleton(text) == strip(collapse_whitespace(remove_punctuation(lower(text))))

TextFacts ==
    [t \in DedupPool |->
        [step |-> Skeleton(or_empty_strip(t.step)),
         expected |-> Skeleton(or_empty_strip(t.expected_result)),
         lone_punct |-> HasLonePunct(or_empty_strip(t.step))
                            \/ HasLonePunct(or_empty_strip(t.expected_result))]]

\* the steps and the expected results of a and b differ only in letter case,
\* in the amount of whitespace and in punctuation characters
SameTexts(a, b) ==
    /\ TextFacts[a].step = TextFacts[b].step
    /\ TextFacts[a].expected = TextFacts[b].expected

\* C13 as stated: two testcases whose texts differ only in letter case, amount
\* of whitespace and punctuation have the same key, and the output of
\* _remove_duplicates never holds both
C13_SameTextsOneSurvivor ==
    /\ \A a, b \in Range(all_testcases) : SameTexts(a, b) => Key(a) = Key(b)
    /\ pc \in {"persist", "done"}
           => \A i, j \in 1..Len(unique_testcases) :
                  SameTexts(unique_testcases[i], unique_testcases[j]) => i = j

\* C13: two testcases whose texts differ only in letter case, amount of
\* whitespace and punctuation, and none of whose texts has a run of
\* punctuation standing alone between whitespace or text ends, have the same
\* key, and the output of _remove_duplicates never holds both
C13_AttachedPunctuationOneSurvivor ==
    /\ \A a, b \in Range(all_testcases) :
           (SameTexts(a, b) /\ ~TextFacts[a].lone_punct /\ ~TextFacts[b].lone_punct)
               => Key(a) = Key(b)
    /\ pc \in {"persist", "done"}
           => \A i, j \in 1..Len(unique_testcases) :
                  (/\ SameTexts(unique_testcases[i], unique_testcases[j])
                   /\ ~TextFacts[unique_testcases[i]].lone_punct
                   /\ ~TextFacts[unique_testcases[j]].lone_punct) => i = j

\* two testcases with a valid step whose raw texts differ in case, whitespace
\* and attached punctuation were merged, and one entry is left
C13_Witness ==
    /\ pc = "persist"
    /\ Len(unique_testcases) = 1
    /\ \E i, j \in 1..Len(all_testcases) :
           /\ all_testcases[i].step # all_testcases[j].step
           /\ all_testcases[i].expected_result # all_testcases[j].expected_result
           /\ ~too_short(all_testcases[i]) /\ ~too_short(all_testcases[j])
           /\ SameTexts(all_testcases[i], all_testcases[j])
           /\ ~TextFacts[all_testcases[i]].lone_punct
           /\ ~TextFacts[all_testcases[j]].lone_punct

\* C15: parse_testcases_from_html never lets an exception out: when a row of
\* any table makes the parser raise, the call has returned (the page
\* continues with the analysis) and its result is the empty list, whatever
\* the tables parsed before had given
C15_ErrorGivesEmptyResult ==
    parse_error => (pc \notin {"html", "table"} /\ html_testcases = <<>>)

\* the parser raised in a later table after an earlier table had given testcases
C15_Witness ==
    /\ pc = "ai"
    /\ parse_error
    /\ tables_done >= 1
    /\ testcases # <<>>
    /\ html_testcases = <<>>

\* exactly one of the two sources failed with an exception and the other one
\* gave testcases
OneSourceFailed ==
    \/ /\ ~analysis_bound /\ ~parse_error /\ html_testcases # <<>>
    \/ /\ parse_error /\ analysis_bound /\ ai_testcases # <<>>

\* C14: when exactly one source failed with an exception and the other gave
\* testcases, the page ends persisted: the result is a success and the
\* deduplicated testcases of the other source are the stored rows
C14_OtherSourceCarries ==
    (pc = "done" /\ OneSourceFailed)
        => (result.success /\ db_testcases = created_rows(unique_testcases))

\* the analysis raised on a page whose tables gave testcases, and the page was
\* not persisted
C14_FailingInput ==
    /\ pc = "done"
    /\ ~analysis_bound /\ ~parse_error
    /\ unique_testcases # <<>>
    /\ unique_testcases = html_testcases
    /\ ~result.success
    /\ db_testcases = <<>>

\* C16: the analyzer never raises to its caller, and the testcases of every
\* result it has returned are a list
C16_AnalyzerReturnsList ==
    /\ an_pc # "raised"
    /\ an_pc \in {"analyzed", "returned"} => analysis.testcases.type = "list"

\* the reply {"testcases": null}: analyze_qa_content returned testcases None,
\* analyze_qa_content_enhanced raised
C16_FailingInput ==
    /\ an_pc = "raised"
    /\ result_text = ReplyNull
    /\ analysis.testcases = JNull

\* the replies that hold no "{" before a "}" or whose substring from the
\* first "{" to the last "}" is no JSON text
UndecodableReplies == {None, ReplyProse, ReplyTruncated, ReplyReversed, ReplyBracedProse}

\* the object of Scenario C
ScenarioCObject ==
    JDict(<<"testcases", "configs", "confidence">>, <<JList(<<>>), JList(<<>>), JNum("0.0")>>)

\* analyze_qa_content has parsed a reply of the API
ReplyParsed == analysis_data # JNull

\* C17: _parse_llm_response decodes the substring from the first "{" to the
\* last "}" of the reply; for a reply without such a substring, or whose
\* substring does not decode, it returns no testcases, no configs and
\* confidence 0.0; for the reply of Scenario C it returns exactly the object
\* between the two pieces of prose
C17_ReplyParser ==
    ReplyParsed =>
        /\ result_text \in UndecodableReplies
               => /\ JGet(analysis_data, "testcases", JNull) = JList(<<>>)
                  /\ JGet(analysis_data, "configs", JNull) = JList(<<>>)
                  /\ JGet(analysis_data, "confidence", JNull) = JNum("0.0")
        /\ result_text = ScenarioC => analysis_data = ScenarioCObject
        /\ result_text = ReplyLogin
               => analysis_data =
                      JDict(<<"testcases", "confidence">>,
                            <<JList(<<JDict(<<"step", "expected_result">>,
                                            <<JStr("Click the login button."), JStr("Dashboard")>>)>>),
                              JNum("0.9")>>)
        /\ result_text = ReplyNull => analysis_data = JDict(<<"testcases">>, <<JNull>>)

\* the reply of Scenario C was parsed and the analyzer has returned
C17_Witness ==
    /\ an_pc = "returned"
    /\ result_text = ScenarioC
    /\ analysis.parsing_method = "llm"
    /\ analysis.testcases = JList(<<>>)
    /\ analysis.analysis_confidence = JNum("0.0")

EmptyPageDone ==
    /\ b_pc = "page"
    /\ pc = "done"
    /\ pages[page_i + 1].kind = "ok"
    /\ html_testcases = <<>>
    /\ ai_testcases = <<>>

\* the page is reported as a skip
CountedAsSkip ==
    /\ ~result.success
    /\ result.reason # ""
    /\ db_testcases = <<>>
    /\ skipped_checklists' = skipped_checklists + 1
    /\ created_checklists' = created_checklists
    /\ existing_checklists' = existing_checklists
    /\ b_pc' = "loop"

\* C19 as stated: a page for which both the HTML parser and the LLM analyzer
\* yield zero testcases is reported as a skip: no checklist is persisted, the
\* result is a non-success with a reason, the page is counted in
\* skipped_checklists and nothing is raised.
C19_EmptyPageSkipped == [][EmptyPageDone => CountedAsSkip]_vars

\* C19 amended: a page for which both sources yield zero testcases and the
\* analyzer yields no configuration is reported as a skip: no checklist is
\* persisted, the result is a non-success with a reason, the page is counted
\* in skipped_checklists and nothing is raised.
C19_EmptyPageWithoutConfigsSkipped ==
    [][(EmptyPageDone /\ ai_configs = <<>>) => CountedAsSkip]_vars

\* a page with a table of a section header only and an empty reply of the
\* model, counted as skipped
C19_Witness ==
    /\ b_pc = "loop"
    /\ page_i >= 1
    /\ pages[page_i].kind = "ok"
    /\ pc = "done"
    /\ tables_done = 1
    /\ rows_read >= 1
    /\ ~parse_error
    /\ analysis_bound
    /\ html_testcases = <<>>
    /\ ai_testcases = <<>>
    /\ ai_configs = <<>>
    /\ ~result.success
    /\ result.reason = "no testcases or configs"
    /\ skipped_checklists >= 1
    /\ pages[page_i].id \notin existing_checklists

\* C20: the parser and the dedup pass keep no state between invocations:
\* whatever the order and the interleaving of the calls of several tasks on
\* one instance, the testcases _parse_table returns for a page and what
\* _remove_duplicates makes of them are those of a call run alone on that
\* page's table.
C20_SameResultAsAlone ==
    frames # <<>> =>
        /\ frames[1].table = frames[Alone].table
        /\ frames[1].pc \in {"dedup", "done"} =>
               frames[1].testcases = frames[Alone].testcases
        /\ frames[1].pc = "done" =>
               frames[1].unique_testcases = frames[Alone].unique_testcases

\* task 1 has returned one testcase out of its two equal rows while task 2
\* is in the middle of its own table, past a divider row that has set a
\* functionality task 1 never saw
C20_Witness ==
    /\ frames # <<>>
    /\ frames[1].pc = "done"
    /\ frames[1].table = <<TcLogin, TcLogin>>
    /\ Len(frames[1].testcases) = 2
    /\ Len(frames[1].unique_testcases) = 1
    /\ frames[1].current_functionality = None
    /\ frames[2].pc = "rows"
    /\ frames[2].table = <<DivRoute, TcLogin>>
    /\ frames[2].i = 1
    /\ frames[2].current_functionality # None

\* a row laid out as a divider: at least two cells with text in the first one
\* only, or text in a cell with a colspan and in no other cell
DividerShaped(cells) ==
    \/ /\ Len(cells) >= 2
       /\ get_text(cells[1]) # ""
       /\ \A c \in 2..Len(cells) : get_text(cells[c]) = ""
    \/ \E c \in 1..Len(cells) :
           /\ cells[c].colspan > 0
           /\ get_text(cells[c]) # ""
           /\ \A d \in 1..Len(cells) : d # c => get_text(cells[d]) = ""

\* the row loop of _parse_table has handled one more row
RowHandled == pc = "table" /\ pc' = "table" /\ Len(rows') = Len(rows) + 1

\* C23: a divider row never produces a testcase: whatever the schema of the
\* table, a data row whose only non-empty cell is the first one, or whose
\* text sits in a spanning cell, adds nothing to the testcases of the table.
C23_DividerEmitsNothing ==
    [][(RowHandled /\ DividerShaped(rows'[Len(rows')]))
           => table_testcases' = table_testcases]_vars

\* a 3-column table whose heading row has become a testcase without an
\* expected result
C23_FailingInput ==
    /\ pc = "table"
    /\ schema = simple_3_col
    /\ rows = <<DivPlain3>>
    /\ Len(table_testcases) = 1
    /\ table_testcases[1].step = "Account settings page"
    /\ table_testcases[1].expected_result = ""

\* C24: each data row is handled as exactly one of section header, divider
\* or testcase candidate, the section-header test being made first: a row
\* that qualifies as a section header only sets the parse state from its
\* section information and emits nothing, whether or not it also qualifies
\* as a divider; a row handled as a divider leaves the section and emits
\* nothing; only a row that is neither leaves the parse state alone and is
\* handed to the testcase parser.
C24_OneClassPerRow ==
    [][RowHandled =>
        LET cells == rows'[Len(rows')] IN
        IF is_section_header_row(cells)
        THEN /\ table_testcases' = table_testcases
             /\ current_section' = extract_section_info(cells).section
             /\ current_functionality' = extract_section_info(cells).functionality
        ELSE IF is_subsection_header(cells)
        THEN /\ table_testcases' = table_testcases
             /\ current_section' = current_section
        ELSE /\ current_section' = current_section
             /\ current_functionality' = current_functionality]_vars

\* a 3-column table with a testcase row and then a section header whose
\* cells would pass as a testcase: one testcase only
C24_Witness ==
    /\ pc = "table"
    /\ schema = simple_3_col
    /\ rows = <<Tc3Col, SecPayload>>
    /\ is_section_header_row(SecPayload)
    /\ parse_testcase_row(SecPayload, simple_3_col, "GENERAL", None) # <<>>
    /\ Len(table_testcases) = 1

\* C25: the parse state is per table and changes only on section-header and
\* divider rows: a table starts with current_section = GENERAL and
\* current_functionality = None whatever an earlier table of the page left,
\* a row handed to the testcase parser leaves both as they are, the section
\* changes on section-header rows only, and current_functionality goes back
\* to None in the middle of a table on a section-header row only.
C25_ParseStatePerTable ==
    [][/\ (pc = "html" /\ pc' = "table") =>
              (current_section' = "GENERAL" /\ current_functionality' = None)
       /\ RowHandled =>
              LET cells == rows'[Len(rows')] IN
              /\ (~RowFacts[cells].section_header /\ ~RowFacts[cells].subsection_header)
                     => (/\ current_section' = current_section
                         /\ current_functionality' = current_functionality)
              /\ current_section' # current_section => RowFacts[cells].section_header
              /\ (current_functionality # None /\ current_functionality' = None)
                     => RowFacts[cells].section_header]_vars

\* the first table of the page ended in section CUSTOM, with a testcase of
\* that section, and the second table has started in section GENERAL
C25_Witness ==
    /\ pc = "table"
    /\ tables_done = 1
    /\ rows = <<>>
    /\ Len(testcases) = 1
    /\ testcases[1].test_group = "CUSTOM"
    /\ current_section = "GENERAL"
    /\ current_functionality = None

\* the cells of a row whose stripped, upper-cased text is GENERAL or CUSTOM
MarkerCells(cells) ==
    {c \in 1..Len(cells) : upper(get_text(cells[c])) \in {"GENERAL", "CUSTOM"}}

\* C27: after a section-header row current_section is CUSTOM only when the
\* text of a cell (stripped and upper-cased, as the parser compares it) is
\* exactly CUSTOM, the last cell that reads exactly GENERAL or CUSTOM
\* deciding; a section-header row recognised by any other text sets
\* current_section to GENERAL even when it was CUSTOM before.
C27_ExactMarkerDecides ==
    [][(RowHandled /\ is_section_header_row(rows'[Len(rows')])) =>
        LET cells == rows'[Len(rows')]
            last == CHOOSE c \in MarkerCells(cells) : \A d \in MarkerCells(cells) : d <= c
        IN current_section' = IF MarkerCells(cells) = {} THEN "GENERAL"
                              ELSE upper(get_text(cells[last]))]_vars

\* a table in which the header CUSTOM CHECKS has set the section back to
\* GENERAL after the marker Custom
C27_Witness ==
    /\ pc = "table"
    /\ rows = <<SecCustom, SecCustomChecks>>
    /\ is_section_header_row(SecCustomChecks)
    /\ current_section = "GENERAL"

\* the testcases of the merged list that have a step and an expected result
Writable == SelectSeq(unique_testcases,
                      LAMBDA t : Truthy(t.step) /\ Truthy(t.expected_result))

\* C28: a testcase of the merged list is written to the database only when
\* both its step and its expected_result are non-empty: the rows written for
\* a persisted page are, in order, the merged testcases that have both, a
\* merged testcase with an empty expected_result is left out, and
\* testcases_created is the number of rows written.
C28_OnlyCompleteTestcasesWritten ==
    (pc = "done" /\ result.success) =>
        /\ Len(db_testcases) = Len(Writable)
        /\ \A i \in 1..Len(db_testcases) :
               /\ db_testcases[i].step = Writable[i].step
               /\ db_testcases[i].expected_result = Writable[i].expected_result
               /\ db_testcases[i].step # ""
               /\ db_testcases[i].expected_result # ""
        /\ result.testcases_created = Len(db_testcases)

\* a persisted page whose merged list holds a testcase without expected
\* result: fewer rows written than testcases merged
C28_Witness ==
    /\ pc = "done"
    /\ result.success
    /\ \E i \in 1..Len(unique_testcases) : unique_testcases[i].expected_result = ""
    /\ db_testcases # <<>>
    /\ result.testcases_created = Len(db_testcases)
    /\ Len(db_testcases) < Len(unique_testcases)

\* the page the loop of load_data is at
ThisPage == pages[page_i + 1]

\* C29: within one loader run at most one checklist is created per page id:
\* the set of existing checklists only grows, a checklist is created only for
\* an id that is not in it and the id is then added, and a page whose id is
\* in the set is not sent to extraction or persistence but reported as
\* skipped because it already exists, also when the id occurs several times
\* in the page list.
C29_OneChecklistPerPage ==
    [][/\ existing_checklists \subseteq existing_checklists'
       /\ (b_pc = "loop" /\ b_pc' = "page") => ThisPage.id \notin existing_checklists
       /\ created_checklists' # created_checklists =>
              /\ created_checklists' = created_checklists + 1
              /\ ThisPage.id \notin existing_checklists
              /\ ThisPage.id \in existing_checklists'
       /\ (b_pc = "loop" /\ page_i' = page_i + 1 /\ ThisPage.kind # "malformed"
              /\ ThisPage.id \in existing_checklists) =>
              /\ ~unified_result'.mysql_success
              /\ unified_result'.mysql_reason = "already exists"
              /\ skipped_checklists' = skipped_checklists + 1
              /\ UNCHANGED <<page_vars, created_checklists, created_testcases>>]_vars

\* a batch that lists the same page twice: created once, then skipped as
\* existing
C29_Witness ==
    /\ b_pc = "loop"
    /\ Len(pages) = 2
    /\ pages[1] = pages[2]
    /\ pages[1].kind = "ok"
    /\ page_i = 2
    /\ created_checklists = 1
    /\ skipped_checklists = 1
    /\ pages[2].id \in existing_checklists
    /\ unified_result.mysql_reason = "already exists"

\* the first 50 characters of a text field of two testcases are the same
\* non-empty text, case and surrounding blanks aside
SameStart(a, b, key) ==
    /\ text_of(a, key) # ""
    /\ text_of(b, key) # ""
    /\ first_50(text_of(a, key)) = first_50(text_of(b, key))

\* the testcase at position k of list is new to the testcases before it and
\* carries its 0-based position as order_index
AppendedWell(list, k) ==
    /\ JGet(list[k], "order_index", JNull) = JNum(ToString(k - 1))
    /\ \A h \in 1..(k - 1) :
           /\ ~SameStart(list[k], list[h], "step")
           /\ ~SameStart(list[k], list[h], "expected_result")

\* C30: enhanced analysis only appends: the per-block pass starts only when
\* the first analysis has fewer than 10 testcases and starts from these
\* testcases, unchanged and in order; each block leaves the testcases listed
\* so far in place and appends only testcases whose first 50 characters of
\* step and of expected_result both differ from those of every testcase
\* listed before, each with order_index equal to its position in the list; a
\* block that fails does not end the pass, and the result returned holds the
\* list so built.
C30_EnhancedOnlyAppends ==
    [][/\ (an_pc = "analyzed" /\ an_pc' = "blocks") =>
              /\ py_len(analysis.testcases) < EnhanceThreshold
              /\ enhanced_testcases' = py_list(analysis.testcases)
       /\ (an_pc = "blocks" /\ an_pc' = "blocks") =>
              /\ blocks_left' = blocks_left - 1
              /\ Len(enhanced_testcases') >= Len(enhanced_testcases)
              /\ SubSeq(enhanced_testcases', 1, Len(enhanced_testcases)) = enhanced_testcases
              /\ \A k \in (Len(enhanced_testcases) + 1)..Len(enhanced_testcases') :
                     AppendedWell(enhanced_testcases', k)
       /\ an_pc = "blocks" =>
              /\ an_pc' \in {"blocks", "returned"}
              /\ an_pc' = "returned" =>
                     /\ blocks_left = 0
                     /\ analysis'.testcases = JList(enhanced_testcases)
                     /\ SubSeq(enhanced_testcases, 1, py_len(analysis.testcases))
                            = py_list(analysis.testcases)]_vars

\* a call whose block pass has added a testcase at position 1 of the result,
\* after the testcase of the first analysis
C30_Witness ==
    /\ an_pc = "returned"
    /\ analysis.parsing_method = "enhanced_llm"
    /\ result_text = ReplyLogin
    /\ blocks_left = 0
    /\ Len(enhanced_testcases) = 2
    /\ enhanced_testcases[1] = AnalysisOf[ReplyLogin].testcases.items[1]
    /\ text_of(enhanced_testcases[2], "step") = "check the email field"
    /\ JGet(enhanced_testcases[2], "order_index", JNull) = JNum("1")

\* the templates of the catalog with as many columns as the header row has cells
Candidates == {k \in 1..Len(table_schemas) : table_schemas[k].schema.columns = Len(header_row)}

\* the header texts as detection compares them
HeaderTextsOf(row) == [i \in 1..Len(row) |-> upper(get_text(row[i]))]

Similarity(k) == calculate_header_similarity(HeaderTextsOf(header_row), table_schemas[k].headers)

\* template k has the highest similarity of the candidates and it is at least 0.5
BestTemplate(k) ==
    /\ k \in Candidates
    /\ ~BelowHalf(Similarity(k))
    /\ \A j \in Candidates : ~Greater(Similarity(j), Similarity(k))

AdaptiveFields == {"number", "step", "expected", "screenshot", "priority", "config", "qa_coverage"}

\* m maps each field to the last header cell holding a keyword of the field and
\* of no field before it in the chain
KeywordBuilt(m) ==
    LET hs == HeaderTextsOf(header_row)
        of(f) == {i \in 1..Len(hs) : adaptive_field(hs[i]) = f}
    IN /\ DOMAIN m = {f \in AdaptiveFields : of(f) # {}}
       /\ \A f \in DOMAIN m : m[f] + 1 \in of(f) /\ \A i \in of(f) : i <= m[f] + 1

\* C26: schema detection returns the column mapping of the catalog template
\* that has the column count of the header row and the highest positional
\* similarity when that similarity is at least 0.5, and the adaptive
\* keyword-built mapping otherwise; the columns of the result equal the number
\* of header cells; the seven standard headers give similarity 1.0 with step at
\* column 1 and expected at column 2
C26_DetectionPicksTemplateOrAdapts ==
    d_pc = "done" =>
        /\ detected.columns = Len(header_row)
        /\ IF \E k \in Candidates : BestTemplate(k)
           THEN \E k \in Candidates :
                    BestTemplate(k) /\ detected.column_mapping = table_schemas[k].schema.column_mapping
           ELSE KeywordBuilt(detected.column_mapping)
        /\ HeaderTextsOf(header_row) = standard_7_headers =>
               /\ best_score = <<7, 7>>
               /\ detected.column_mapping.step = 1
               /\ detected.column_mapping.expected = 2

\* detection has returned the 4-column template for a header row of which two of
\* the four headers are those of the template: a similarity of exactly 0.5
C26_Witness ==
    /\ d_pc = "done"
    /\ header_row = Half4Row
    /\ best_score = <<2, 4>>
    /\ detected = simple_4_col

\* the call has returned {success: false, error: ...} without reaching a collaborator
Rejected ==
    /\ response.success = FALSE
    /\ "error" \in DOMAIN response
    /\ touched = <<>>

SearchPriorities == {"LOWEST", "LOW", "MEDIUM", "HIGH", "HIGHEST", "CRITICAL"}

\* the arguments of the call break a range of qa_search_testcases or of qa_get_testcases
OutOfRange ==
    \/ /\ tool_call.tool = "qa_search_testcases"
       /\ \/ Len(strip(tool_call.query)) < 3
          \/ tool_call.limit \notin 1..50
          \/ tool_call.min_similarity \notin 0..100
    \/ /\ tool_call.tool = "qa_get_testcases"
       /\ \/ tool_call.limit \notin 1..500
          \/ tool_call.offset < 0

\* C21 as stated: qa_search_testcases called with a short query, a limit outside
\* 1..50, a min_similarity outside [0.0, 1.0], a test_group other than GENERAL
\* and CUSTOM or an unknown priority, and qa_get_testcases called with a limit or
\* an offset out of range, return success = false with an error and reach no
\* collaborator
C21_InvalidArgumentsRejected ==
    (/\ t_pc = "done"
     /\ \/ OutOfRange
        \/ /\ tool_call.tool = "qa_search_testcases"
           /\ \/ tool_call.test_group \notin {None, "GENERAL", "CUSTOM"}
              \/ tool_call.priority \notin {None} \cup SearchPriorities)
        => Rejected

\* C21, amended: the same for a test_group and a priority that are not empty; an
\* empty test_group or priority counts as not given and does not stop the search
C21_NonEmptyInvalidArgumentsRejected ==
    (/\ t_pc = "done"
     /\ \/ OutOfRange
        \/ /\ tool_call.tool = "qa_search_testcases"
           /\ \/ tool_call.test_group \notin {None, "", "GENERAL", "CUSTOM"}
              \/ tool_call.priority \notin {None, ""} \cup SearchPriorities)
        => Rejected

\* qa_search_testcases has returned for a call whose only fault is the
\* test_group INVALID
C21_Witness ==
    /\ t_pc = "done"
    /\ tool_call = [DefaultCall("qa_search_testcases") EXCEPT
                        !.query = " login ", !.limit = 50, !.min_similarity = 100,
                        !.test_group = "INVALID", !.priority = "HIGH"]
    /\ response = Failure("test_group must be GENERAL or CUSTOM")
    /\ touched = <<>>

\* the messages of the exceptions the collaborators have raised during the call
RaisedMessages == {touched[i].raised : i \in 1..Len(touched)} \ {None}

\* the call has returned a dictionary
Returned == "raises" \notin DOMAIN response

\* the call has returned success = false with the message of the exception as error
ReportedAsError ==
    \A message \in RaisedMessages :
        /\ response.success = FALSE
        /\ "error" \in DOMAIN response
        /\ response.error = message

\* embed_text has returned no embedding: the document search ends at its check
NullEmbedding ==
    /\ tool_call.tool = "qa_search_documents"
    /\ Len(touched) = 3
    /\ touched[3].raised = None

\* what the claim says of a document search
DocumentSearchFailsEmpty ==
    /\ RaisedMessages # {} \/ NullEmbedding => response.results = <<>> /\ response.count = 0
    /\ NullEmbedding =>
           /\ response.success = FALSE
           /\ response.error = "Failed to generate query embedding"

HealthReportsInServices ==
    LET connection == {touched[i].raised : i \in {j \in 1..Len(touched) :
                           touched[j].name \in {"qa_repo.get_session", "session.execute"}}} \ {None}
        statistics == {touched[i].raised : i \in {j \in 1..Len(touched) :
                           touched[j].name = "qa_repo.get_qa_statistics"}} \ {None}
    IN /\ response.success = (connection = {})
       /\ "error" \notin DOMAIN response
       /\ \A message \in connection :
              response.services.mysql = [status |-> "unhealthy", message |-> message]
       /\ \A message \in statistics :
              response.services.statistics = [status |-> "unhealthy", message |-> message]

====
